---- MODULE Spec2Model ----
(***************************************************************************)
(* A model of the scene-graph / render-group / batching core of pixi.js:   *)
(* ViewContainer (bounds cache, onViewUpdate, collectRenderablesSimple),    *)
(* the RenderGroup bookkeeping it notifies, a render pass, and MeshPipe.   *)
(***************************************************************************)
EXTENDS Integers, Sequences, FiniteSets, TLC

\* ---------------------------------------------------------------- bounds
\* The largest change tick a view reaches in the scene specification.
MaxTick == 2
\* The longest instruction set to which a renderable is still added.
MaxInstructions == 3

\* ------------------------------------------------------------- universe
\* Three nodes: a plain Container that is handed to render(), and two
\* ViewContainers "a" and "b". Either can be attached below the root and "b"
\* below "a" (the scenes with "a" below "b" are these with the names swapped).
Root == "root"
View == {"a", "b"}
Node == {Root} \cup View
NoNode == "none"

VARIABLES
    \* Container (tree)
    parent,             \* Node -> Node \cup {NoNode}
    children,           \* Node -> Seq(Node), in insertion order
    isRenderGroup,      \* Node -> BOOLEAN: the node owns a RenderGroup
    visible,            \* Node -> BOOLEAN: visible and renderable
    \* ViewContainer
    didViewUpdate,      \* View -> BOOLEAN
    didViewChangeTick,  \* View -> Nat (_didViewChangeTick)
    boundsDirty,        \* View -> BOOLEAN (_boundsDirty)
    \* RenderGroup, keyed by its root node
    childrenRenderablesToUpdate, \* Node -> [list : Seq(View), index : Nat]
    groupDirty,         \* Node -> BOOLEAN: the group's instruction set has to be rebuilt
    \* observers of the operations (not program state)
    notifications,      \* View -> 0..2: onChildViewUpdate calls for the view since it was last collected
    boundsReads,        \* View -> 0..2: reads of bounds since the last mutation (or construction)
    updateBoundsCalls,  \* View -> 0..2: updateBounds() calls since the last mutation (or construction)
    lastPass            \* the render pass that has just completed, if any: the groups it
                        \* rebuilt, their instruction sets, the onRender calls it made

treeVars == <<parent, children, isRenderGroup, visible>>
viewVars == <<didViewUpdate, didViewChangeTick, boundsDirty>>
groupVars == <<childrenRenderablesToUpdate, groupDirty>>
boundsObs == <<boundsReads, updateBoundsCalls>>
sceneVars == <<treeVars, viewVars, groupVars, notifications, boundsObs, lastPass>>

VARIABLES
    \* Mesh (the renderables handed to the pipe)
    mesh,               \* Mesh -> [batched, texture, geometry]
    listeners,          \* Mesh -> 0..2: registrations of the pipe's 'destroyed' listener
    \* MeshPipe
    meshDataHash,       \* Mesh -> MeshData (_meshDataHash, keyed by mesh.uid)
    gpuBatchableMeshHash, \* Mesh -> Rec \cup {NoRecord} (_gpuBatchableMeshHash)
    pipeDestroyed,      \* BOOLEAN: MeshPipe.destroy has run (both hashes are null)
    \* BatchableMesh records, BigPool, the instruction set being built
    batchable,          \* Rec -> [renderable, texture, geometry, batch]
    pool,               \* Seq(Rec): the records BigPool holds, last returned last
    instructionSet,     \* Seq of instructions
    \* observers of the operations (not program state)
    returned,           \* Rec -> 0..2: BigPool.return calls for the record since its last BigPool.get
    prevValidated,      \* Mesh -> the mesh as its previous validateRenderable call saw it
    lastCall            \* the pipe method called last, how often in a row, and its outcome

VARIABLES
    \* round pixels
    rendererRoundPixels, \* 0..1: renderer._roundPixels
    meshRoundPixels      \* Mesh -> 0..1: mesh._roundPixels

meshVars == <<mesh, listeners>>
roundVars == <<rendererRoundPixels, meshRoundPixels>>
pipeVars == <<meshVars, meshDataHash, gpuBatchableMeshHash, pipeDestroyed, roundVars, batchable,
              pool, instructionSet, returned, prevValidated, lastCall>>

VARIABLES
    \* the renderer's pipes and the instruction set each render group keeps
    registered,         \* View -> BOOLEAN: renderPipes[view.renderPipeId] is a pipe
    groupBlendMode,     \* View -> BlendMode
    groupInstructionSet, \* Node -> Seq of instructions (renderGroup.instructionSet)
    thrown              \* the error the last render call raised, or NoError

rendererVars == <<registered, groupBlendMode, groupInstructionSet, thrown>>

VARIABLES
    \* the life of a view
    destroyed,          \* View -> BOOLEAN: destroy() has run
    gpuData,            \* View -> [isNull, keys]: _gpuData, keyed by renderer uid
    gpuDestroyCalls,    \* View -> [RendererUid -> 0..2]: destroy() calls on the entry of that renderer
    lastUse             \* the operation on a view called last and its outcome (observer)

lifeVars == <<destroyed, gpuData, gpuDestroyCalls, lastUse>>

VARIABLES
    \* the shape of the views: "a" is a NineSliceSprite, "b" an HTMLText
    size,               \* [width, height]: _width and _height of the NineSliceSprite
    content,            \* [text, style, resolution]: _text, _style, _resolution of the text
    anchor,             \* View -> [x, y]: _anchor, in halves (2 is the anchor 1.0)
    viewBounds          \* View -> [minX, maxX, minY, maxY]: the Bounds object in _bounds

VARIABLES
    \* the texture of the NineSliceSprite
    texture,            \* _texture, or NoTexture after destroy
    updateListeners     \* texture -> 0..2: registrations of the sprite's onViewUpdate for
                        \* the texture's 'update' event

texVars == <<texture, updateListeners>>
shapeVars == <<size, content, anchor, viewBounds, texVars>>

VARIABLES
    \* EventSystem
    supportsPointerEvents, \* BOOLEAN: the environment has PointerEvent
    supportsTouchEvents,   \* BOOLEAN: the environment has touch events
    autoPreventDefault,    \* BOOLEAN
    features,              \* [move, click, wheel : BOOLEAN]
    domElement,            \* Element \cup {NoElement}
    eventsAdded,           \* BOOLEAN (_eventsAdded)
    renderer,              \* BOOLEAN: the system still has its renderer (null after destroy)
    currentCursor,         \* CursorMode \cup {NoCursor} (_currentCursor)
    \* the DOM and the EventBoundary the system talks to
    eventListeners,        \* <<EventTarget, NativeType>> -> 1..2, a bag: addEventListener
                           \* calls for the system's handlers not yet undone by
                           \* removeEventListener
    styleCursor,           \* Element -> the value of the element's style.cursor
    rootTarget,            \* rootBoundary.rootTarget
    boundaryCursor,        \* rootBoundary.cursor
    \* observers of the operations (not program state)
    lastEvent,             \* the last native event handled and the events given to mapEvent
    lastCursor             \* the last setCursor call and what it did

envVars == <<supportsPointerEvents, supportsTouchEvents, autoPreventDefault>>
eventVars == <<envVars, features, domElement, eventsAdded, renderer, currentCursor, eventListeners,
               styleCursor, rootTarget, boundaryCursor, lastEvent, lastCursor>>

\* Everything but the scene, and everything but the pipe.
offScene == <<pipeVars, rendererVars, lifeVars, shapeVars, eventVars>>
offPipe == <<sceneVars, rendererVars, lifeVars, shapeVars, eventVars>>
\* Everything but the event system.
offEvent == <<sceneVars, pipeVars, rendererVars, lifeVars, shapeVars>>

\* ---------------------------------------------------------------- helpers
Min(x, y) == IF x < y THEN x ELSE y

Range(s) == {s[i] : i \in 1..Len(s)}

RECURSIVE Remove(_, _)
Remove(s, x) ==
    IF s = <<>> THEN <<>>
    ELSE IF Head(s) = x THEN Remove(Tail(s), x)
    ELSE <<Head(s)>> \o Remove(Tail(s), x)

\* The nodes of the subtree rooted at n, n included.
RECURSIVE Subtree(_)
Subtree(n) == {n} \cup UNION {Subtree(c) : c \in Range(children[n])}

\* The nearest strict ancestor of n that owns a render group under the flags rg.
RECURSIVE NearestGroup(_, _)
NearestGroup(n, rg) ==
    IF parent[n] = NoNode THEN NoNode
    ELSE IF rg[parent[n]] THEN parent[n]
    ELSE NearestGroup(parent[n], rg)

\* Container.parentRenderGroup
parentRenderGroup(n) == NearestGroup(n, isRenderGroup)

\* `this.renderGroup || this.parentRenderGroup`
OwnerGroup(n) == IF isRenderGroup[n] THEN n ELSE parentRenderGroup(n)

NoUpdates == [list |-> <<>>, index |-> 0]

NoPass == [done |-> FALSE, rebuilt |-> {}, instructionSet |-> [n \in Node |-> <<>>],
           onRenderCalls |-> [n \in Node |-> 0]]

\* ------------------------------------------------------------ RenderGroup
\* Upward dirty propagation: mark g and walk to the parent group, stopping at
\* a group that is already dirty.
RECURSIVE DirtyUp(_, _)
DirtyUp(g, dirty) ==
    IF g = NoNode THEN dirty
    ELSE IF dirty[g] THEN dirty
    ELSE DirtyUp(parentRenderGroup(g), [dirty EXCEPT ![g] = TRUE])

\* RenderGroup.onChildViewUpdate(view) on the group rooted at g.
onChildViewUpdate(g, v) ==
    LET u == childrenRenderablesToUpdate[g] IN
    /\ childrenRenderablesToUpdate' =
           [childrenRenderablesToUpdate EXCEPT
               ![g] = [list |-> SubSeq(u.list, 1, u.index) \o <<v>>,
                       index |-> u.index + 1]]
    /\ groupDirty' =
           IF u.index = 0
           THEN DirtyUp(parentRenderGroup(g), [groupDirty EXCEPT ![g] = TRUE])
           ELSE groupDirty
    /\ notifications' = [notifications EXCEPT ![v] = Min(@ + 1, 2)]

\* ---------------------------------------------------------- ViewContainer
\* onViewUpdate without `this.didViewUpdate = true`: nothing is coalesced.
onViewUpdate_neverSetsFlag(v) ==
    /\ didViewChangeTick' = [didViewChangeTick EXCEPT ![v] = @ + 1]
    /\ boundsDirty' = [boundsDirty EXCEPT ![v] = TRUE]
    /\ IF didViewUpdate[v]
       THEN UNCHANGED <<didViewUpdate, childrenRenderablesToUpdate, groupDirty, notifications>>
       ELSE /\ UNCHANGED didViewUpdate
            /\ LET renderGroup == OwnerGroup(v) IN
               IF renderGroup # NoNode
               THEN onChildViewUpdate(renderGroup, v)
               ELSE UNCHANGED <<childrenRenderablesToUpdate, groupDirty, notifications>>

\* onViewUpdate that counts the change only after the early return.
onViewUpdate_tickAfterEarlyReturn(v) ==
    /\ boundsDirty' = [boundsDirty EXCEPT ![v] = TRUE]
    /\ IF didViewUpdate[v]
       THEN UNCHANGED <<didViewChangeTick, didViewUpdate, childrenRenderablesToUpdate,
                        groupDirty, notifications>>
       ELSE /\ didViewChangeTick' = [didViewChangeTick EXCEPT ![v] = @ + 1]
            /\ didViewUpdate' = [didViewUpdate EXCEPT ![v] = TRUE]
            /\ LET renderGroup == OwnerGroup(v) IN
               IF renderGroup # NoNode
               THEN onChildViewUpdate(renderGroup, v)
               ELSE UNCHANGED <<childrenRenderablesToUpdate, groupDirty, notifications>>

\* onViewUpdate without the early return on didViewUpdate.
onViewUpdate_noEarlyReturn(v) ==
    /\ didViewChangeTick' = [didViewChangeTick EXCEPT ![v] = @ + 1]
    /\ boundsDirty' = [boundsDirty EXCEPT ![v] = TRUE]
    /\ didViewUpdate' = [didViewUpdate EXCEPT ![v] = TRUE]
    /\ LET renderGroup == OwnerGroup(v) IN
       IF renderGroup # NoNode
       THEN onChildViewUpdate(renderGroup, v)
       ELSE UNCHANGED <<childrenRenderablesToUpdate, groupDirty, notifications>>

\* onViewUpdate with `this.parentRenderGroup || this.renderGroup`.
onViewUpdate_parentGroupFirst(v) ==
    /\ didViewChangeTick' = [didViewChangeTick EXCEPT ![v] = @ + 1]
    /\ boundsDirty' = [boundsDirty EXCEPT ![v] = TRUE]
    /\ IF didViewUpdate[v]
       THEN UNCHANGED <<didViewUpdate, childrenRenderablesToUpdate, groupDirty, notifications>>
       ELSE /\ didViewUpdate' = [didViewUpdate EXCEPT ![v] = TRUE]
            /\ LET renderGroup == IF parentRenderGroup(v) # NoNode
                                  THEN parentRenderGroup(v) ELSE OwnerGroup(v) IN
               IF renderGroup # NoNode
               THEN onChildViewUpdate(renderGroup, v)
               ELSE UNCHANGED <<childrenRenderablesToUpdate, groupDirty, notifications>>

\* ViewContainer.onViewUpdate
onViewUpdate(v) ==
    /\ didViewChangeTick' = [didViewChangeTick EXCEPT ![v] = @ + 1]
    /\ boundsDirty' = [boundsDirty EXCEPT ![v] = TRUE]
    /\ IF didViewUpdate[v]
       THEN UNCHANGED <<didViewUpdate, childrenRenderablesToUpdate, groupDirty, notifications>>
       ELSE /\ didViewUpdate' = [didViewUpdate EXCEPT ![v] = TRUE]
            /\ LET renderGroup == OwnerGroup(v) IN
               IF renderGroup # NoNode
               THEN onChildViewUpdate(renderGroup, v)
               ELSE UNCHANGED <<childrenRenderablesToUpdate, groupDirty, notifications>>

\* A setter of a shape property (width, text, anchor, texture ...): it stores
\* the value and calls onViewUpdate.
Mutate(v) ==
    /\ didViewChangeTick[v] < MaxTick
    /\ onViewUpdate(v)
    /\ boundsReads' = [boundsReads EXCEPT ![v] = 0]
    /\ updateBoundsCalls' = [updateBoundsCalls EXCEPT ![v] = 0]
    /\ lastPass' = NoPass
    /\ UNCHANGED <<treeVars, offScene>>

\* The bounds getter without `this._boundsDirty = false`.
bounds_keepsDirty(v) ==
    /\ IF ~boundsDirty[v]
       THEN UNCHANGED <<boundsDirty, updateBoundsCalls>>
       ELSE /\ updateBoundsCalls' = [updateBoundsCalls EXCEPT ![v] = Min(@ + 1, 2)]
            /\ UNCHANGED boundsDirty

\* The bounds getter.
bounds(v) ==
    /\ IF ~boundsDirty[v]
       THEN UNCHANGED <<boundsDirty, updateBoundsCalls>>
       ELSE /\ updateBoundsCalls' = [updateBoundsCalls EXCEPT ![v] = Min(@ + 1, 2)]
            /\ boundsDirty' = [boundsDirty EXCEPT ![v] = FALSE]

ReadBounds(v) ==
    /\ bounds(v)
    /\ boundsReads' = [boundsReads EXCEPT ![v] = Min(@ + 1, 2)]
    /\ lastPass' = NoPass
    /\ UNCHANGED <<treeVars, didViewUpdate, didViewChangeTick, groupVars, notifications,
                   offScene>>

\* ------------------------------------------------- collection (one group)
DrawInstruction(v) == [kind |-> "draw", node |-> v]
GroupInstruction(n) == [kind |-> "group", node |-> n]
NothingCollected == [instructions |-> <<>>, cleared |-> {}]

RECURSIVE collectRenderables(_), collectRenderablesSimple(_), collectChildren(_)

\* The `for` loop over children, in child order.
collectChildren(cs) ==
    IF cs = <<>> THEN NothingCollected
    ELSE LET first == collectRenderables(Head(cs))
             rest == collectChildren(Tail(cs))
         IN [instructions |-> first.instructions \o rest.instructions,
             cleared |-> first.cleared \cup rest.cleared]

\* collectRenderablesSimple without `this.didViewUpdate = false`.
collectRenderablesSimple_keepsFlag(v) ==
    LET below == collectChildren(children[v])
    IN [instructions |-> <<DrawInstruction(v)>> \o below.instructions,
        cleared |-> below.cleared]

\* collectRenderablesSimple that visits the children before it adds the view.
collectRenderablesSimple_childrenFirst(v) ==
    LET below == collectChildren(children[v])
    IN [instructions |-> below.instructions \o <<DrawInstruction(v)>>,
        cleared |-> {v} \cup below.cleared]

\* ViewContainer.collectRenderablesSimple: the pipe adds the view, the view's
\* didViewUpdate is cleared (it joins `cleared`), then the children are visited.
collectRenderablesSimple(v) ==
    LET below == collectChildren(children[v])
    IN [instructions |-> <<DrawInstruction(v)>> \o below.instructions,
        cleared |-> {v} \cup below.cleared]

\* Container.collectRenderables: an invisible node is skipped with its subtree,
\* a nested render group is referenced and collects for itself.
collectRenderables(n) ==
    IF ~visible[n] THEN NothingCollected
    ELSE IF isRenderGroup[n]
         THEN [instructions |-> <<GroupInstruction(n)>>, cleared |-> {}]
    ELSE IF n \in View THEN collectRenderablesSimple(n)
    ELSE collectChildren(children[n])

\* What the rebuild of the group rooted at g collects.
CollectGroup(g) ==
    IF g \in View THEN collectRenderablesSimple(g) ELSE collectChildren(children[g])

NestedGroups(g) ==
    {i.node : i \in {j \in Range(CollectGroup(g).instructions) : j.kind = "group"}}

\* ------------------------------------------------------------- render pass
\* The groups the pass rebuilds: from the root group down, dirty groups only.
RECURSIVE Rebuilt(_, _)
Rebuilt(g, dirty) ==
    IF ~dirty[g] THEN {}
    ELSE {g} \cup UNION {Rebuilt(h, dirty) : h \in NestedGroups(g)}

\* The hook fired by the node's own group and by the enclosing group as well.
OnRenderFirings_bothGroups(n, rg) ==
    Cardinality({g \in Subtree(Root) : rg[g] /\ (g = n \/ g = NearestGroup(n, rg))})

\* The number of times the pass fires the onRender hook of node n: once for
\* every render group of the rendered tree that holds n among its onRender
\* containers, which is the group that owns n.
OnRenderFirings(n, rg) ==
    Cardinality({g \in Subtree(Root) :
                    rg[g] /\ g = (IF rg[n] THEN n ELSE NearestGroup(n, rg))})

Render ==
    LET dirty == [groupDirty EXCEPT ![Root] = IF isRenderGroup[Root] THEN @ ELSE TRUE]
        rebuilt == Rebuilt(Root, dirty)
        cleared == UNION {CollectGroup(g).cleared : g \in rebuilt}
        promoted == [isRenderGroup EXCEPT ![Root] = TRUE]
    IN
    /\ isRenderGroup' = promoted
    /\ childrenRenderablesToUpdate' = [g \in Node |->
           IF g \in rebuilt THEN NoUpdates ELSE childrenRenderablesToUpdate[g]]
    /\ groupDirty' = [g \in Node |-> IF g \in rebuilt THEN FALSE ELSE dirty[g]]
    /\ didViewUpdate' = [v \in View |-> IF v \in cleared THEN FALSE ELSE didViewUpdate[v]]
    /\ notifications' = [v \in View |-> IF v \in cleared THEN 0 ELSE notifications[v]]
    /\ lastPass' = [done |-> TRUE,
                    rebuilt |-> rebuilt,
                    instructionSet |-> [g \in Node |->
                        IF g \in rebuilt THEN CollectGroup(g).instructions ELSE <<>>],
                    onRenderCalls |-> [n \in Node |->
                        IF n \in Subtree(Root) THEN OnRenderFirings(n, promoted) ELSE 0]]
    /\ UNCHANGED <<parent, children, visible, didViewChangeTick, boundsDirty, boundsObs,
                   offScene>>

\* ------------------------------------------- collection with unknown pipes
BlendMode == {"normal", "add"}
NoError == "none"
BlendInstruction(mode) == [kind |-> "blend", node |-> mode]
\* The instruction set after instructionSet.reset() and buildStart.
BuildStarted ==
    [instructions |-> <<>>, cleared |-> {}, activeBlendMode |-> "normal", thrown |-> FALSE]

\* BlendModePipe.setBlendMode: a switch of the blend mode is recorded in the
\* instruction set as a state-change marker.
setBlendMode(v, mode, build) ==
    IF build.activeBlendMode = mode THEN build
    ELSE [build EXCEPT !.activeBlendMode = mode,
                       !.instructions = Append(@, BlendInstruction(mode))]

RECURSIVE collectRenderablesInto(_, _), collectRenderablesSimpleInto(_, _),
          collectChildrenInto(_, _)

\* The `for` loop over children; an exception ends it.
collectChildrenInto(cs, build) ==
    IF cs = <<>> \/ build.thrown THEN build
    ELSE collectChildrenInto(Tail(cs), collectRenderablesInto(Head(cs), build))

\* ViewContainer.collectRenderablesSimple on the instruction set being built:
\* setBlendMode, then `rp[this.renderPipeId].addRenderable`, which throws a
\* TypeError when rp[this.renderPipeId] is undefined, then the flag, then the
\* children.
collectRenderablesSimpleInto(v, build) ==
    LET blended == setBlendMode(v, groupBlendMode[v], build) IN
    IF ~registered[v] THEN [blended EXCEPT !.thrown = TRUE]
    ELSE collectChildrenInto(children[v],
             [blended EXCEPT !.instructions = Append(@, DrawInstruction(v)),
                             !.cleared = @ \cup {v}])

collectRenderablesInto(n, build) ==
    IF ~visible[n] THEN build
    ELSE IF isRenderGroup[n]
         THEN [build EXCEPT !.instructions = Append(@, GroupInstruction(n))]
    ELSE IF n \in View THEN collectRenderablesSimpleInto(n, build)
    ELSE collectChildrenInto(children[n], build)

\* A render call on a tree whose only render group is the root's: the group's
\* instruction set is reset and rebuilt in place when the group is dirty; an
\* exception of the traversal reaches the caller and ends the pass where it is.
renderRoot ==
    LET dirty == IF isRenderGroup[Root] THEN groupDirty[Root] ELSE TRUE
        build == collectChildrenInto(children[Root], BuildStarted)
    IN
    /\ isRenderGroup' = [isRenderGroup EXCEPT ![Root] = TRUE]
    /\ IF ~dirty
       THEN /\ thrown' = NoError
            /\ groupDirty' = [groupDirty EXCEPT ![Root] = FALSE]
            /\ UNCHANGED <<groupInstructionSet, didViewUpdate, notifications,
                           childrenRenderablesToUpdate>>
       ELSE /\ groupInstructionSet' = [groupInstructionSet EXCEPT ![Root] = build.instructions]
            /\ didViewUpdate' = [v \in View |->
                   IF v \in build.cleared THEN FALSE ELSE didViewUpdate[v]]
            /\ notifications' = [v \in View |->
                   IF v \in build.cleared THEN 0 ELSE notifications[v]]
            /\ IF build.thrown
               THEN /\ thrown' = "TypeError"
                    /\ groupDirty' = [groupDirty EXCEPT ![Root] = TRUE]
                    /\ UNCHANGED childrenRenderablesToUpdate
               ELSE /\ thrown' = NoError
                    /\ groupDirty' = [groupDirty EXCEPT ![Root] = FALSE]
                    /\ childrenRenderablesToUpdate' =
                           [childrenRenderablesToUpdate EXCEPT ![Root] = NoUpdates]
    /\ lastPass' = NoPass
    /\ UNCHANGED <<parent, children, visible, didViewChangeTick, boundsDirty, boundsObs,
                   registered, groupBlendMode, pipeVars, lifeVars, shapeVars, eventVars>>

\* ------------------------------------------------------ Container (tree)
\* A structural change under the group g: g has to be rebuilt.
StructureChange(g) ==
    /\ groupDirty' = DirtyUp(g, groupDirty)
    /\ lastPass' = NoPass
    /\ UNCHANGED <<viewVars, childrenRenderablesToUpdate, notifications, boundsObs,
                   offScene>>

\* addChild that accepts a node that still has a parent and leaves it in the
\* old parent's list.
addChild_keepsOldParent(p, c) ==
    /\ c # Root /\ c # p
    /\ p \notin Subtree(c)
    /\ c \notin Range(children[p])
    /\ parent' = [parent EXCEPT ![c] = p]
    /\ children' = [children EXCEPT ![p] = Append(@, c)]
    /\ UNCHANGED <<isRenderGroup, visible>>
    /\ StructureChange(OwnerGroup(p))

\* Container.addChild: adding a node that has a parent, the node itself or one of
\* its ancestors is refused (InvalidHierarchy) and changes nothing.
addChild(p, c) ==
    /\ c # Root /\ c # p
    /\ parent[c] = NoNode
    /\ p \notin Subtree(c)
    /\ parent' = [parent EXCEPT ![c] = p]
    /\ children' = [children EXCEPT ![p] = Append(@, c)]
    /\ UNCHANGED <<isRenderGroup, visible>>
    /\ StructureChange(OwnerGroup(p))

\* Container.removeChild
removeChild(p, c) ==
    /\ parent[c] = p
    /\ parent' = [parent EXCEPT ![c] = NoNode]
    /\ children' = [children EXCEPT ![p] = Remove(@, c)]
    /\ UNCHANGED <<isRenderGroup, visible>>
    /\ StructureChange(OwnerGroup(p))

\* Container.visible / renderable
setVisible(n, value) ==
    /\ n # Root
    /\ visible[n] # value
    /\ visible' = [visible EXCEPT ![n] = value]
    /\ UNCHANGED <<parent, children, isRenderGroup>>
    /\ StructureChange(parentRenderGroup(n))

\* Container.enableRenderGroup: the node becomes the root of a new render group,
\* which has never been built.
enableRenderGroup(n) ==
    /\ n # Root
    /\ ~isRenderGroup[n]
    /\ isRenderGroup' = [isRenderGroup EXCEPT ![n] = TRUE]
    /\ groupDirty' = DirtyUp(parentRenderGroup(n), [groupDirty EXCEPT ![n] = TRUE])
    /\ lastPass' = NoPass
    /\ UNCHANGED <<parent, children, visible, viewVars, childrenRenderablesToUpdate,
                   notifications, boundsObs, offScene>>

\* Container.disableRenderGroup: the render group is destroyed and the node
\* joins the enclosing group.
disableRenderGroup(n) ==
    /\ n # Root
    /\ isRenderGroup[n]
    /\ isRenderGroup' = [isRenderGroup EXCEPT ![n] = FALSE]
    /\ groupDirty' = DirtyUp(parentRenderGroup(n), [groupDirty EXCEPT ![n] = FALSE])
    /\ childrenRenderablesToUpdate' = [childrenRenderablesToUpdate EXCEPT ![n] = NoUpdates]
    /\ lastPass' = NoPass
    /\ UNCHANGED <<parent, children, visible, viewVars, notifications, boundsObs,
                   offScene>>

\* ------------------------------------------------------- life of a view
RendererUid == {1, 2}
NoUse == [op |-> "none", view |-> NoNode, afterDestroy |-> FALSE, outcome |-> "ok", seq |-> 0]

\* The observer's record of a call of `op` on v with the given outcome.
Used(op, v, outcome) ==
    lastUse' = [op |-> op, view |-> v, afterDestroy |-> destroyed[v], outcome |-> outcome,
                seq |-> 1 - lastUse.seq]

\* A renderer stores its GPU data for the view under its uid.
createGpuData(v, r) ==
    /\ ~destroyed[v]
    /\ r \notin gpuData[v].keys
    /\ gpuData' = [gpuData EXCEPT ![v].keys = @ \cup {r}]
    /\ UNCHANGED <<sceneVars, pipeVars, rendererVars, eventVars, shapeVars, destroyed, gpuDestroyCalls, lastUse>>

\* A setter (op "set": NineSliceSprite.width, AbstractText.text ...) or the
\* 'update' event of the texture or style the view listens to (op "update"):
\* both end in onViewUpdate, whatever the state of the view.
viewUpdate(v, op) ==
    /\ didViewChangeTick[v] < MaxTick
    /\ onViewUpdate(v)
    /\ boundsReads' = [boundsReads EXCEPT ![v] = 0]
    /\ updateBoundsCalls' = [updateBoundsCalls EXCEPT ![v] = 0]
    /\ lastPass' = NoPass
    /\ Used(op, v, "ok")
    /\ UNCHANGED <<treeVars, pipeVars, rendererVars, eventVars, shapeVars, destroyed, gpuData, gpuDestroyCalls>>

\* The bounds getter (op "bounds") and containsPoint (op "containsPoint"). After
\* destroy _bounds is null: updateBounds throws a TypeError when the bounds are
\* dirty, the getter returns null when they are not, and containsPoint throws a
\* TypeError on the null it gets.
readBounds(v, op) ==
    /\ IF destroyed[v]
       THEN /\ Used(op, v, IF boundsDirty[v] \/ op = "containsPoint" THEN "TypeError"
                           ELSE "null")
            /\ UNCHANGED <<boundsDirty, boundsObs>>
       ELSE /\ bounds(v)
            /\ boundsReads' = [boundsReads EXCEPT ![v] = Min(@ + 1, 2)]
            /\ Used(op, v, "ok")
    /\ lastPass' = NoPass
    /\ UNCHANGED <<treeVars, didViewUpdate, didViewChangeTick, groupVars, notifications,
                   pipeVars, rendererVars, eventVars, shapeVars, destroyed, gpuData, gpuDestroyCalls>>

\* Container.destroy, as far as the tree goes: the node leaves its parent. A
\* second call returns at once.
Container_destroy(v) ==
    IF destroyed[v] \/ parent[v] = NoNode
    THEN UNCHANGED <<parent, children, groupDirty>>
    ELSE /\ parent' = [parent EXCEPT ![v] = NoNode]
         /\ children' = [children EXCEPT ![parent[v]] = Remove(@, v)]
         /\ groupDirty' = DirtyUp(OwnerGroup(parent[v]), groupDirty)

\* ViewContainer.destroy without the loop over _gpuData.
ViewContainer_destroy_dropsGpuData(v) ==
    /\ Container_destroy(v)
    /\ destroyed' = [destroyed EXCEPT ![v] = TRUE]
    /\ gpuDestroyCalls' = gpuDestroyCalls
    /\ gpuData' = [gpuData EXCEPT ![v] = [isNull |-> TRUE, keys |-> {}]]
    /\ Used("destroy", v, "ok")
    /\ lastPass' = NoPass
    /\ UNCHANGED <<isRenderGroup, visible, viewVars, childrenRenderablesToUpdate,
                   notifications, boundsObs, pipeVars, rendererVars, eventVars, size, content, anchor,
                   viewBounds>>

\* ViewContainer.destroy: super.destroy, _bounds = null, destroy() on every
\* entry of _gpuData (`for in` over null visits nothing), _gpuData = null.
ViewContainer_destroy(v) ==
    /\ Container_destroy(v)
    /\ destroyed' = [destroyed EXCEPT ![v] = TRUE]
    /\ gpuDestroyCalls' = [gpuDestroyCalls EXCEPT ![v] =
           [r \in RendererUid |-> IF ~gpuData[v].isNull /\ r \in gpuData[v].keys
                                  THEN Min(@[r] + 1, 2) ELSE @[r]]]
    /\ gpuData' = [gpuData EXCEPT ![v] = [isNull |-> TRUE, keys |-> {}]]
    /\ Used("destroy", v, "ok")
    /\ lastPass' = NoPass
    /\ UNCHANGED <<isRenderGroup, visible, viewVars, childrenRenderablesToUpdate,
                   notifications, boundsObs, pipeVars, rendererVars, eventVars, size, content, anchor,
                   viewBounds>>

\* ------------------------------------------------ shape and local bounds
\* View "a" is a NineSliceSprite, view "b" an HTMLText. Lengths are integers;
\* anchors are kept in halves, so that 0, 1, 2 are the anchors 0, 0.5, 1.
Sprite == "a"
TextView == "b"
Length == {-2, 0, 2}
AnchorHalves == {0, 1, 2}
TextString == {"", "ab"}
TextStyle == {"s1", "s2"}
Resolution == {1, 2}

\* new Bounds(0, 1, 0, 0): minX, minY, maxX, maxY
NewBounds == [minX |-> 0, minY |-> 1, maxX |-> 0, maxY |-> 0]

\* measureHtmlText(text, style): the text's width grows with its length and the
\* style's font size, its height with the font size; neither is negative.
measureHtmlText(t, style) ==
    LET fontSize == IF style = "s2" THEN 4 ELSE 2
    IN [width |-> Len(t) * fontSize, height |-> fontSize]

\* The body the two updateBounds share: minX = -anchor._x * width,
\* maxX = minX + width, and the same for y.
BoundsOf(a, width, height) ==
    LET minX == -((a.x * width) \div 2)
        minY == -((a.y * height) \div 2)
    IN [minX |-> minX, minY |-> minY, maxX |-> minX + width, maxY |-> minY + height]

\* NineSliceSprite.updateBounds and HTMLText.updateBounds
updateBounds(v) ==
    IF v = Sprite THEN BoundsOf(anchor[v], size.width, size.height)
    ELSE LET htmlMeasurement == measureHtmlText(content.text, content.style)
         IN BoundsOf(anchor[v], htmlMeasurement.width, htmlMeasurement.height)

\* The call of onViewUpdate that ends a setter.
viewChanged(v) ==
    /\ didViewChangeTick[v] < MaxTick
    /\ onViewUpdate(v)
    /\ boundsReads' = [boundsReads EXCEPT ![v] = 0]
    /\ updateBoundsCalls' = [updateBoundsCalls EXCEPT ![v] = 0]
    /\ lastPass' = NoPass
    /\ UNCHANGED <<treeVars, pipeVars, rendererVars, eventVars, lifeVars, viewBounds>>

\* The width setter without its call of onViewUpdate.
set_width_silent(value) ==
    /\ size' = [size EXCEPT !.width = value]
    /\ UNCHANGED <<sceneVars, pipeVars, rendererVars, eventVars, lifeVars, content, anchor, viewBounds, texVars>>

\* NineSliceSprite: set width, set height, setSize
set_width(value) ==
    /\ size' = [size EXCEPT !.width = value]
    /\ viewChanged(Sprite)
    /\ UNCHANGED <<content, anchor, texVars>>

set_height(value) ==
    /\ size' = [size EXCEPT !.height = value]
    /\ viewChanged(Sprite)
    /\ UNCHANGED <<content, anchor, texVars>>

\* An optional number (undefined or a number) and the ?? operator on it.
Undefined == [defined |-> FALSE, value |-> 0]
Some(x) == [defined |-> TRUE, value |-> x]
Coalesce(optional, default) == IF optional.defined THEN optional.value ELSE default
\* The first argument of setSize: a number, or an object with a width and an
\* optional height.
SizeNumber(width) == [isObject |-> FALSE, width |-> width, height |-> Undefined]
SizeObject(width, height) == [isObject |-> TRUE, width |-> width, height |-> height]

\* setSize in which a missing height leaves the height as it is.
setSize_keepsHeight(value, height) ==
    /\ size' = [width |-> value.width,
                height |-> Coalesce(IF value.isObject THEN value.height ELSE height,
                                    size.height)]
    /\ viewChanged(Sprite)
    /\ UNCHANGED <<content, anchor, texVars>>

\* setSize(value, height?): of an object the width and `height ?? width` are
\* taken; then _width = value, _height = height ?? value, and one onViewUpdate.
setSize(value, height) ==
    LET objectHeight == IF value.isObject THEN Some(Coalesce(value.height, value.width))
                        ELSE height
    IN  /\ size' = [width |-> value.width, height |-> Coalesce(objectHeight, value.width)]
        /\ viewChanged(Sprite)
        /\ UNCHANGED <<content, anchor, texVars>>

\* getSize(): the stored width and height.
getSize == [width |-> size.width, height |-> size.height]

\* NineSliceSprite: set leftWidth, topHeight, rightWidth, bottomHeight, or a
\* texture seen as a change of the view only: the value is stored and
\* onViewUpdate is called. The listeners of the texture setter are set_texture.
set_textureOrBorder ==
    /\ viewChanged(Sprite)
    /\ UNCHANGED <<size, content, anchor, texVars>>

\* The textures given to the NineSliceSprite: Texture.EMPTY and three others,
\* two of them dynamic.
EMPTY == "EMPTY"
NoTexture == "null"
SpriteTexture == {EMPTY, "d1", "d2", "s1"}
dynamic(t) == t \in {"d1", "d2"}

\* NineSliceSprite: set texture. A null value stands for Texture.EMPTY; the
\* current texture returns at once; otherwise the listener leaves a dynamic
\* current texture and joins a dynamic new one.
set_texture(value) ==
    LET new == IF value = NoTexture THEN EMPTY ELSE value
        currentTexture == texture
        afterOff == IF currentTexture # NoTexture /\ dynamic(currentTexture)
                    THEN [updateListeners EXCEPT ![currentTexture] = 0]
                    ELSE updateListeners
    IN  IF currentTexture = new
        THEN UNCHANGED <<sceneVars, pipeVars, rendererVars, eventVars, lifeVars, shapeVars>>
        ELSE /\ updateListeners' = IF dynamic(new)
                                   THEN [afterOff EXCEPT ![new] = Min(@ + 1, 2)]
                                   ELSE afterOff
             /\ texture' = new
             /\ viewChanged(Sprite)
             /\ UNCHANGED <<size, content, anchor>>

\* NineSliceSprite.destroy(options): the destroy of the view, the destroy of
\* the texture when the options ask for it, and _texture becomes null. Whether
\* Texture.destroy drops the listeners of the texture is open.
NineSliceSprite_destroy(destroyTexture) ==
    /\ ViewContainer_destroy(Sprite)
    /\ IF destroyTexture
       THEN \E dropsListeners \in BOOLEAN :
                updateListeners' = IF dropsListeners
                                   THEN [updateListeners EXCEPT ![texture] = 0]
                                   ELSE updateListeners
       ELSE UNCHANGED updateListeners
    /\ texture' = NoTexture

\* texture.emit('update'): the sprite's onViewUpdate runs when it is registered.
emitUpdate(t) ==
    /\ updateListeners[t] > 0
    /\ viewChanged(Sprite)
    /\ UNCHANGED <<size, content, anchor, texVars>>

\* set anchor (both classes): ObservablePoint.set / copyFrom call _onUpdate, which
\* calls onViewUpdate, when a coordinate changes.
set_anchor(v, x, y) ==
    /\ anchor[v] # [x |-> x, y |-> y]
    /\ anchor' = [anchor EXCEPT ![v] = [x |-> x, y |-> y]]
    /\ viewChanged(v)
    /\ UNCHANGED <<size, content, texVars>>

\* AbstractText: set text returns early when the string is the same.
set_text(value) ==
    /\ content.text # value
    /\ content' = [content EXCEPT !.text = value]
    /\ viewChanged(TextView)
    /\ UNCHANGED <<size, anchor, texVars>>

\* AbstractText: set style, set resolution
set_style(style) ==
    /\ content' = [content EXCEPT !.style = style]
    /\ viewChanged(TextView)
    /\ UNCHANGED <<size, anchor, texVars>>

set_resolution(value) ==
    /\ content' = [content EXCEPT !.resolution = value]
    /\ viewChanged(TextView)
    /\ UNCHANGED <<size, anchor, texVars>>

\* A read of bounds: the getter, with updateBounds writing into the Bounds
\* object when the bounds are dirty.
get_bounds(v) ==
    /\ bounds(v)
    /\ viewBounds' = IF boundsDirty[v] THEN [viewBounds EXCEPT ![v] = updateBounds(v)]
                     ELSE viewBounds
    /\ boundsReads' = [boundsReads EXCEPT ![v] = Min(@ + 1, 2)]
    /\ lastPass' = NoPass
    /\ UNCHANGED <<treeVars, didViewUpdate, didViewChangeTick, groupVars, notifications,
                   pipeVars, rendererVars, eventVars, lifeVars, size, content, anchor, texVars>>

\* ------------------------------------------------------------------ Mesh
\* Two meshes, keyed by uid. A mesh is batched or not, has one of three textures
\* ("t1" and "t2" fit the same batch, "t3" does not fit with them) and one of
\* three geometries that differ in the index count or in the vertex count.
Mesh == {"m1", "m2"}
MeshOrder == <<"m1", "m2">>
Texture == {"t1", "t2", "t3"}
Geometry == {"g1", "g2", "g3"}
Rec == {"r1", "r2"}
NoRecord == "none"
NoBatch == "none"

\* mesh._geometry.indices.length and mesh._geometry.positions.length
indicesLength(g) == IF g = "g2" THEN 6 ELSE 3
positionsLength(g) == IF g = "g3" THEN 8 ELSE 4

\* The texture slot budget a texture belongs to: textures fit the same batch
\* when they share it.
SlotOf(t) == IF t = "t3" THEN "s2" ELSE "s1"

MeshState == [batched : BOOLEAN, texture : Texture, geometry : Geometry]
NewMesh == [batched |-> TRUE, texture |-> "t1", geometry |-> "g1"]

\* A change of the mesh between two calls of the pipe: its batched flag, its
\* texture, its geometry, or several of them.
changeMesh(m, value) ==
    /\ value # mesh[m]
    /\ mesh' = [mesh EXCEPT ![m] = value]
    /\ UNCHANGED <<listeners, meshDataHash, gpuBatchableMeshHash, pipeDestroyed, roundVars, batchable,
                   pool, instructionSet, returned, prevValidated, lastCall>>
    /\ UNCHANGED offPipe

\* --------------------------------------------------- BigPool, BatchableMesh
\* A BatchableMesh that is in the pool or has just been constructed.
NewBatchableMesh ==
    [renderable |-> "none", texture |-> "none", geometry |-> "none", batch |-> NoBatch,
     roundPixels |-> 0]

InUse == {gpuBatchableMeshHash[m] : m \in Mesh} \ {NoRecord}

\* BigPool.get(BatchableMesh): the record returned last, or a new one when the
\* pool is empty.
BigPool_get ==
    IF pool # <<>>
    THEN [item |-> pool[Len(pool)], pool |-> SubSeq(pool, 1, Len(pool) - 1)]
    ELSE [item |-> CHOOSE r \in Rec : r \notin InUse /\ r \notin Range(pool), pool |-> <<>>]

\* ---------------------------------------------------------------- Batcher
Break == [kind |-> "break", mesh |-> "none", slot |-> "none"]
MeshInstruction(m) == [kind |-> "mesh", mesh |-> m, slot |-> "none"]
BatchElement(m, t) == [kind |-> "batch", mesh |-> m, slot |-> SlotOf(t)]

\* The slot of the batch that is accumulating at the end of the instruction set.
OpenBatch(iset) ==
    IF iset = <<>> THEN NoBatch
    ELSE IF iset[Len(iset)].kind = "batch" THEN iset[Len(iset)].slot
    ELSE NoBatch

\* batcher.break(instructionSet): the break is recorded in the instruction set.
batcherBreak(iset) == Append(iset, Break)

\* batcher.addToBatch(element, instructionSet): the element joins the batch in
\* progress if its texture is compatible with it; if not, the batch is broken
\* first.
addToBatch(m, t, iset) ==
    IF OpenBatch(iset) # NoBatch /\ OpenBatch(iset) # SlotOf(t)
    THEN Append(batcherBreak(iset), BatchElement(m, t))
    ELSE Append(iset, BatchElement(m, t))

\* batcher.checkAndUpdateTexture(element, texture): whether the texture fits the
\* batch the element is in.
checkAndUpdateTexture(element, t) == SlotOf(t) = element.batch

\* --------------------------------------------------------------- MeshPipe
\* An absent or null entry of _meshDataHash.
NoMeshData == [present |-> FALSE, batched |-> FALSE, indexSize |-> 0, vertexSize |-> 0]

NoCall == [op |-> "none", mesh |-> "none", times |-> 0, result |-> "none"]

\* The observer's record of a call: `times` counts the calls of the same method
\* on the same mesh in a row (up to two).
Called(op, m, result) ==
    [op |-> op, mesh |-> m, result |-> result,
     times |-> IF lastCall.op = op /\ lastCall.mesh = m THEN Min(lastCall.times + 1, 2) ELSE 1]

NotValidated == [known |-> FALSE, batched |-> FALSE, geometry |-> "none"]

\* The call dereferences null or undefined at its first access: it throws a
\* TypeError and has changed nothing.
Throws(op, m) ==
    /\ lastCall' = Called(op, m, "TypeError")
    /\ UNCHANGED <<meshVars, meshDataHash, gpuBatchableMeshHash, pipeDestroyed, roundVars, batchable,
                   pool, instructionSet, returned, prevValidated>>

\* _initMeshData: the entry made for a mesh the pipe has no entry for.
initMeshData(m) ==
    [present |-> TRUE, batched |-> mesh[m].batched,
     indexSize |-> indicesLength(mesh[m].geometry),
     vertexSize |-> positionsLength(mesh[m].geometry)]

\* _getMeshData
getMeshData(m) == IF meshDataHash[m].present THEN meshDataHash[m] ELSE initMeshData(m)

\* _initMeshData registers the 'destroyed' listener.
listenersAfterGetMeshData(m) ==
    IF meshDataHash[m].present THEN listeners
    ELSE [listeners EXCEPT ![m] = Min(@ + 1, 2)]

\* a | b on the values 0 and 1.
BitOr(a, b) == IF a = 1 \/ b = 1 THEN 1 ELSE 0

\* _initBatchableMesh that leaves the record's roundPixels as the pool gave it.
initBatchableMesh_noRound(m) ==
    [NewBatchableMesh EXCEPT !.renderable = m, !.texture = mesh[m].texture]

\* _initBatchableMesh: the record as it leaves the pool for the mesh.
initBatchableMesh(m) ==
    [NewBatchableMesh EXCEPT !.renderable = m, !.texture = mesh[m].texture,
                             !.roundPixels = BitOr(rendererRoundPixels, meshRoundPixels[m])]

\* MeshPipe.validateRenderable. The recorded batched flag is replaced by the
\* mesh's; a changed flag returns true at once, leaving the recorded counts; a
\* batched mesh with other counts than the recorded ones has them recorded and
\* returns true; otherwise a batched mesh gets its record (made if missing) and
\* the answer is whether the record's batcher refuses the texture. A record that
\* was never added to a batch has no batcher: the call on it throws.
validateRenderable(m) ==
    IF pipeDestroyed THEN Throws("validateRenderable", m)
    ELSE
    LET meshData == getMeshData(m)
        wasBatched == meshData.batched
        isBatched == mesh[m].batched
        geometry == mesh[m].geometry
        countsDiffer == \/ indicesLength(geometry) # meshData.indexSize
                        \/ positionsLength(geometry) # meshData.vertexSize
        toTexture == wasBatched = isBatched /\ isBatched /\ ~countsDiffer
        hasRecord == gpuBatchableMeshHash[m] # NoRecord
        got == BigPool_get
        r == IF hasRecord THEN gpuBatchableMeshHash[m] ELSE got.item
        batchableMesh == IF hasRecord THEN batchable[r] ELSE initBatchableMesh(m)
        fits == checkAndUpdateTexture(batchableMesh, mesh[m].texture)
    IN
    /\ meshDataHash' = [meshDataHash EXCEPT ![m] =
           IF wasBatched # isBatched THEN [meshData EXCEPT !.batched = isBatched]
           ELSE IF isBatched /\ countsDiffer
           THEN [meshData EXCEPT !.indexSize = indicesLength(geometry),
                                 !.vertexSize = positionsLength(geometry)]
           ELSE meshData]
    /\ listeners' = listenersAfterGetMeshData(m)
    /\ IF toTexture
       THEN /\ gpuBatchableMeshHash' = [gpuBatchableMeshHash EXCEPT ![m] = r]
            /\ pool' = IF hasRecord THEN pool ELSE got.pool
            /\ returned' = IF hasRecord THEN returned ELSE [returned EXCEPT ![r] = 0]
            /\ batchable' = [batchable EXCEPT ![r] =
                   IF batchableMesh.batch # NoBatch /\ fits
                   THEN [batchableMesh EXCEPT !.texture = mesh[m].texture]
                   ELSE batchableMesh]
       ELSE UNCHANGED <<gpuBatchableMeshHash, pool, returned, batchable>>
    /\ lastCall' = Called("validateRenderable", m,
           IF wasBatched # isBatched \/ (isBatched /\ countsDiffer) THEN "true"
           ELSE IF ~isBatched THEN "false"
           ELSE IF batchableMesh.batch = NoBatch THEN "TypeError"
           ELSE IF fits THEN "false" ELSE "true")
    /\ prevValidated' = [prevValidated EXCEPT ![m] =
           [known |-> TRUE, batched |-> isBatched, geometry |-> geometry]]
    /\ UNCHANGED <<mesh, pipeDestroyed, roundVars, instructionSet>>

\* addRenderable that takes the record from the pool before it branches.
addRenderable_eager(m, iset) ==
    IF pipeDestroyed THEN Throws("addRenderable", m)
    ELSE
    LET meshData == getMeshData(m)
        hasRecord == gpuBatchableMeshHash[m] # NoRecord
        got == BigPool_get
        r == IF hasRecord THEN gpuBatchableMeshHash[m] ELSE got.item
        gpuBatchMesh == IF hasRecord THEN batchable[r] ELSE initBatchableMesh(m)
    IN
    /\ meshDataHash' = [meshDataHash EXCEPT ![m] = meshData]
    /\ listeners' = listenersAfterGetMeshData(m)
    /\ gpuBatchableMeshHash' = [gpuBatchableMeshHash EXCEPT ![m] = r]
    /\ pool' = IF hasRecord THEN pool ELSE got.pool
    /\ returned' = IF hasRecord THEN returned ELSE [returned EXCEPT ![r] = 0]
    /\ IF meshData.batched
       THEN /\ batchable' = [batchable EXCEPT ![r] =
                   [gpuBatchMesh EXCEPT !.texture = mesh[m].texture,
                                        !.geometry = mesh[m].geometry,
                                        !.batch = SlotOf(mesh[m].texture)]]
            /\ instructionSet' = addToBatch(m, mesh[m].texture, iset)
       ELSE /\ batchable' = [batchable EXCEPT ![r] = gpuBatchMesh]
            /\ instructionSet' = Append(batcherBreak(iset), MeshInstruction(m))
    /\ lastCall' = Called("addRenderable", m, "ok")
    /\ UNCHANGED <<mesh, pipeDestroyed, roundVars, prevValidated>>

\* MeshPipe.addRenderable(mesh, instructionSet) on the instruction set iset. The
\* branch is taken on the batched flag of the mesh data, not on the mesh's.
addRenderable(m, iset) ==
    IF pipeDestroyed THEN Throws("addRenderable", m)
    ELSE
    LET meshData == getMeshData(m)
        hasRecord == gpuBatchableMeshHash[m] # NoRecord
        got == BigPool_get
        r == IF hasRecord THEN gpuBatchableMeshHash[m] ELSE got.item
        gpuBatchMesh == IF hasRecord THEN batchable[r] ELSE initBatchableMesh(m)
    IN
    /\ meshDataHash' = [meshDataHash EXCEPT ![m] = meshData]
    /\ listeners' = listenersAfterGetMeshData(m)
    /\ IF meshData.batched
       THEN /\ gpuBatchableMeshHash' = [gpuBatchableMeshHash EXCEPT ![m] = r]
            /\ pool' = IF hasRecord THEN pool ELSE got.pool
            /\ returned' = IF hasRecord THEN returned ELSE [returned EXCEPT ![r] = 0]
            /\ batchable' = [batchable EXCEPT ![r] =
                   [gpuBatchMesh EXCEPT !.texture = mesh[m].texture,
                                        !.geometry = mesh[m].geometry,
                                        !.batch = SlotOf(mesh[m].texture)]]
            /\ instructionSet' = addToBatch(m, mesh[m].texture, iset)
       ELSE /\ UNCHANGED <<gpuBatchableMeshHash, pool, returned, batchable>>
            /\ instructionSet' = Append(batcherBreak(iset), MeshInstruction(m))
    /\ lastCall' = Called("addRenderable", m, "ok")
    /\ UNCHANGED <<mesh, pipeDestroyed, roundVars, prevValidated>>

\* updateRenderable that runs the texture check of validateRenderable and keeps
\* the record's texture when the batch refuses the new one.
updateRenderable_checksTexture(m) ==
    IF ~mesh[m].batched
    THEN /\ lastCall' = Called("updateRenderable", m, "ok")
         /\ UNCHANGED <<meshVars, meshDataHash, gpuBatchableMeshHash, pipeDestroyed, roundVars,
                        batchable, pool, instructionSet, returned, prevValidated>>
    ELSE IF pipeDestroyed \/ gpuBatchableMeshHash[m] = NoRecord
    THEN Throws("updateRenderable", m)
    ELSE
    LET r == gpuBatchableMeshHash[m] IN
    /\ batchable' = [batchable EXCEPT ![r] =
           IF checkAndUpdateTexture(@, mesh[m].texture)
           THEN [@ EXCEPT !.texture = mesh[m].texture, !.geometry = mesh[m].geometry]
           ELSE [@ EXCEPT !.geometry = mesh[m].geometry]]
    /\ lastCall' = Called("updateRenderable", m,
           IF batchable[r].batch = NoBatch THEN "TypeError" ELSE "ok")
    /\ UNCHANGED <<meshVars, meshDataHash, gpuBatchableMeshHash, pipeDestroyed, roundVars, pool,
                   instructionSet, returned, prevValidated>>

\* MeshPipe.updateRenderable: the record is read from the hash as it is.
updateRenderable(m) ==
    IF ~mesh[m].batched
    THEN /\ lastCall' = Called("updateRenderable", m, "ok")
         /\ UNCHANGED <<meshVars, meshDataHash, gpuBatchableMeshHash, pipeDestroyed, roundVars,
                        batchable, pool, instructionSet, returned, prevValidated>>
    ELSE IF pipeDestroyed \/ gpuBatchableMeshHash[m] = NoRecord
    THEN Throws("updateRenderable", m)
    ELSE
    LET r == gpuBatchableMeshHash[m] IN
    /\ batchable' = [batchable EXCEPT ![r] =
           [@ EXCEPT !.texture = mesh[m].texture, !.geometry = mesh[m].geometry]]
    /\ lastCall' = Called("updateRenderable", m,
           IF batchable[r].batch = NoBatch THEN "TypeError" ELSE "ok")
    /\ UNCHANGED <<meshVars, meshDataHash, gpuBatchableMeshHash, pipeDestroyed, roundVars, pool,
                   instructionSet, returned, prevValidated>>

\* destroyRenderable without mesh.off.
destroyRenderable_keepsListener(m) ==
    IF pipeDestroyed THEN Throws("destroyRenderable", m)
    ELSE
    LET gpuMesh == gpuBatchableMeshHash[m] IN
    /\ meshDataHash' = [meshDataHash EXCEPT ![m] = NoMeshData]
    /\ IF gpuMesh # NoRecord
       THEN /\ pool' = Append(pool, gpuMesh)
            /\ returned' = [returned EXCEPT ![gpuMesh] = Min(@ + 1, 2)]
            /\ batchable' = [batchable EXCEPT ![gpuMesh] = NewBatchableMesh]
            /\ gpuBatchableMeshHash' = [gpuBatchableMeshHash EXCEPT ![m] = NoRecord]
       ELSE UNCHANGED <<pool, returned, batchable, gpuBatchableMeshHash>>
    /\ lastCall' = Called("destroyRenderable", m, "ok")
    /\ UNCHANGED <<mesh, listeners, pipeDestroyed, roundVars, instructionSet, prevValidated>>

\* destroyRenderable that returns the record and keeps it in the uid's slot.
destroyRenderable_keepsSlot(m) ==
    IF pipeDestroyed THEN Throws("destroyRenderable", m)
    ELSE
    LET gpuMesh == gpuBatchableMeshHash[m] IN
    /\ meshDataHash' = [meshDataHash EXCEPT ![m] = NoMeshData]
    /\ IF gpuMesh # NoRecord
       THEN /\ pool' = Append(pool, gpuMesh)
            /\ returned' = [returned EXCEPT ![gpuMesh] = Min(@ + 1, 2)]
            /\ batchable' = [batchable EXCEPT ![gpuMesh] = NewBatchableMesh]
            /\ UNCHANGED gpuBatchableMeshHash
       ELSE UNCHANGED <<pool, returned, batchable, gpuBatchableMeshHash>>
    /\ listeners' = [listeners EXCEPT ![m] = 0]
    /\ lastCall' = Called("destroyRenderable", m, "ok")
    /\ UNCHANGED <<mesh, pipeDestroyed, roundVars, instructionSet, prevValidated>>

\* MeshPipe.destroyRenderable. On a destroyed pipe _meshDataHash is null and the
\* first assignment throws.
destroyRenderable(m) ==
    IF pipeDestroyed THEN Throws("destroyRenderable", m)
    ELSE
    LET gpuMesh == gpuBatchableMeshHash[m] IN
    /\ meshDataHash' = [meshDataHash EXCEPT ![m] = NoMeshData]
    /\ IF gpuMesh # NoRecord
       THEN /\ pool' = Append(pool, gpuMesh)
            /\ returned' = [returned EXCEPT ![gpuMesh] = Min(@ + 1, 2)]
            /\ batchable' = [batchable EXCEPT ![gpuMesh] = NewBatchableMesh]
            /\ gpuBatchableMeshHash' = [gpuBatchableMeshHash EXCEPT ![m] = NoRecord]
       ELSE UNCHANGED <<pool, returned, batchable, gpuBatchableMeshHash>>
    /\ listeners' = [listeners EXCEPT ![m] = 0]
    /\ lastCall' = Called("destroyRenderable", m, "ok")
    /\ UNCHANGED <<mesh, pipeDestroyed, roundVars, instructionSet, prevValidated>>

\* MeshPipe.destroy: every record held goes back to the pool and both hashes
\* become null; the listeners stay on the meshes. A second call finds _adaptor
\* null and throws.
destroy ==
    IF pipeDestroyed THEN Throws("destroy", "none")
    ELSE
    LET held(m) == gpuBatchableMeshHash[m] # NoRecord
        heldMeshes == SelectSeq(MeshOrder, held)
    IN
    /\ pool' = pool \o [i \in 1..Len(heldMeshes) |-> gpuBatchableMeshHash[heldMeshes[i]]]
    /\ returned' = [r \in Rec |-> IF r \in InUse THEN Min(returned[r] + 1, 2) ELSE returned[r]]
    /\ batchable' = [r \in Rec |-> IF r \in InUse THEN NewBatchableMesh ELSE batchable[r]]
    /\ gpuBatchableMeshHash' = [m \in Mesh |-> NoRecord]
    /\ meshDataHash' = [m \in Mesh |-> NoMeshData]
    /\ pipeDestroyed' = TRUE
    /\ lastCall' = Called("destroy", "none", "ok")
    /\ UNCHANGED <<meshVars, roundVars, instructionSet, prevValidated>>

\* ------------------------------------------------------------ EventSystem
\* Two DOM elements the system can be bound to, and the two global targets.
Element == {"e1", "e2"}
NoElement == "null"
EventTarget == Element \cup {"document", "globalThis"}

\* An event type is kept as the two parts the code tells apart with startsWith:
\* 'mousedown' is Type("mouse", "down"), and its name is "mouse" \o "down".
Type(prefix, rest) == [prefix |-> prefix, rest |-> rest]
TypeName(type) == type.prefix \o type.rest
PointerEventTypes == {Type("pointer", r) : r \in {"move", "down", "leave", "over", "up"}}
MouseEventTypes == {Type("mouse", r) : r \in {"move", "down", "out", "over", "up"}}
TouchEventTypes == {Type("touch", r) : r \in {"start", "end", "move"}}
WheelEventType == Type("wheel", "")
NativeType == PointerEventTypes \cup MouseEventTypes \cup TouchEventTypes \cup {WheelEventType}

TOUCH_TO_POINTER ==
    [start |-> Type("pointer", "down"), end |-> Type("pointer", "up"),
     endoutside |-> Type("pointer", "upoutside"), move |-> Type("pointer", "move"),
     cancel |-> Type("pointer", "cancel")]

\* Cursor modes. cursorStyles holds the two default CSS strings and a function
\* registered for the mode "custom"; the mode "wait" has no entry. The falsy
\* mode is the empty string.
CursorMode == {"default", "pointer", "custom", "wait"}
NoMode == ""
NoCursor == "unset"
cursorStyles ==
    [default |-> [kind |-> "string", css |-> "inherit"],
     pointer |-> [kind |-> "string", css |-> "pointer"],
     custom |-> [kind |-> "function", css |-> ""]]

NoEvent == [type |-> Type("", ""), onElement |-> TRUE, handler |-> "none", mapped |-> <<>>,
            error |-> NoError, seq |-> 0]
NoCursorCall == [mode |-> NoMode, applied |-> FALSE, called |-> FALSE, error |-> NoError,
                 seq |-> 0]

\* The listeners _addEvents registers (and _removeEvents removes) for the
\* element el: target, native type and the handler bound to it.
Binding(target, type, handler) == [target |-> target, type |-> type, handler |-> handler]
Bindings(el) ==
    (IF supportsPointerEvents
     THEN {Binding("document", Type("pointer", "move"), "_onPointerMove"),
           Binding(el, Type("pointer", "down"), "_onPointerDown"),
           Binding(el, Type("pointer", "leave"), "_onPointerOverOut"),
           Binding(el, Type("pointer", "over"), "_onPointerOverOut"),
           Binding("globalThis", Type("pointer", "up"), "_onPointerUp")}
     ELSE {Binding("document", Type("mouse", "move"), "_onPointerMove"),
           Binding(el, Type("mouse", "down"), "_onPointerDown"),
           Binding(el, Type("mouse", "out"), "_onPointerOverOut"),
           Binding(el, Type("mouse", "over"), "_onPointerOverOut"),
           Binding("globalThis", Type("mouse", "up"), "_onPointerUp")}
          \cup (IF supportsTouchEvents
                THEN {Binding(el, Type("touch", "start"), "_onPointerDown"),
                      Binding(el, Type("touch", "end"), "_onPointerUp"),
                      Binding(el, Type("touch", "move"), "_onPointerMove")}
                ELSE {}))
    \cup {Binding(el, WheelEventType, "onWheel")}

\* The listeners are kept as a bag: the registered <<target, type>> pairs, each
\* with its number of registrations.
Keys(el) == {<<b.target, b.type>> : b \in Bindings(el)}
NoListeners == [k \in {} |-> 0]
Registered(ls, target, type) ==
    IF <<target, type>> \in DOMAIN ls THEN ls[<<target, type>>] ELSE 0

\* _addEvents on the listeners ls with domElement el.
addEvents(ls, el, added) ==
    IF added \/ el = NoElement
    THEN [listeners |-> ls, eventsAdded |-> added]
    ELSE [listeners |-> [k \in DOMAIN ls \cup Keys(el) |->
                            IF k \in Keys(el) THEN Min(Registered(ls, k[1], k[2]) + 1, 2)
                            ELSE ls[k]],
          eventsAdded |-> TRUE]

\* What is left of the listeners ls when those of the keys are removed once.
Removed(ls, keys) ==
    [k \in {j \in DOMAIN ls : j \in keys => ls[j] > 1} |->
        IF k \in keys THEN ls[k] - 1 ELSE ls[k]]

\* _removeEvents that leaves the listeners on document and globalThis.
removeEvents_keepsGlobal(ls, el, added) ==
    IF ~added \/ el = NoElement
    THEN [listeners |-> ls, eventsAdded |-> added, domElement |-> el]
    ELSE [listeners |-> Removed(ls, {k \in Keys(el) : k[1] \in Element}),
          eventsAdded |-> FALSE, domElement |-> NoElement]

\* _removeEvents on the listeners ls with domElement el.
removeEvents(ls, el, added) ==
    IF ~added \/ el = NoElement
    THEN [listeners |-> ls, eventsAdded |-> added, domElement |-> el]
    ELSE [listeners |-> Removed(ls, Keys(el)),
          eventsAdded |-> FALSE, domElement |-> NoElement]

\* setTargetElement(element), as far as the listeners and the element go.
bindTargetElement(element) ==
    LET removed == removeEvents(eventListeners, domElement, eventsAdded)
        added == addEvents(removed.listeners, element, removed.eventsAdded)
    IN  /\ domElement' = element
        /\ eventListeners' = added.listeners
        /\ eventsAdded' = added.eventsAdded

setTargetElement(element) ==
    /\ bindTargetElement(element)
    /\ UNCHANGED <<envVars, features, renderer, currentCursor, styleCursor, rootTarget,
                   boundaryCursor, lastEvent, lastCursor>>
    /\ UNCHANGED offEvent

\* init: the renderer's canvas becomes the target element and the feature
\* options are assigned.
init(canvas, eventFeatures) ==
    /\ bindTargetElement(canvas)
    /\ features' = eventFeatures
    /\ UNCHANGED <<envVars, renderer, currentCursor, styleCursor, rootTarget,
                   boundaryCursor, lastEvent, lastCursor>>
    /\ UNCHANGED offEvent

\* destroy: setTargetElement(null), renderer = null, _currentCursor = null.
EventSystem_destroy ==
    /\ bindTargetElement(NoElement)
    /\ renderer' = FALSE
    /\ currentCursor' = NoCursor
    /\ UNCHANGED <<envVars, features, styleCursor, rootTarget, boundaryCursor, lastEvent,
                   lastCursor>>
    /\ UNCHANGED offEvent

\* An assignment to one of the feature flags.
setFeature(name, value) ==
    /\ features' = [features EXCEPT ![name] = value]
    /\ UNCHANGED <<envVars, domElement, eventsAdded, renderer, currentCursor, eventListeners,
                   styleCursor, rootTarget, boundaryCursor, lastEvent, lastCursor>>
    /\ UNCHANGED offEvent

\* setCursor(mode) on the cursor variables: the early return on an unchanged
\* mode, then the style of the mode: a CSS string is written to the element, a
\* function is called, a mode without an entry is written as it is. Writing
\* the style of a null domElement is a TypeError, after _currentCursor was set.
applyCursor(mode) ==
    LET m == IF mode = NoMode THEN "default" ELSE mode
        hasStyle == m \in DOMAIN cursorStyles
        writes == IF hasStyle THEN cursorStyles[m].kind = "string" ELSE TRUE
        css == IF hasStyle THEN cursorStyles[m].css ELSE m
        Done(applied, called, error) ==
            lastCursor' = [mode |-> m, applied |-> applied, called |-> called,
                           error |-> error, seq |-> 1 - lastCursor.seq]
    IN  IF currentCursor = m
        THEN /\ Done(FALSE, FALSE, NoError)
             /\ UNCHANGED <<currentCursor, styleCursor>>
        ELSE /\ currentCursor' = m
             /\ IF writes
                THEN IF domElement = NoElement
                     THEN Done(FALSE, FALSE, "TypeError") /\ UNCHANGED styleCursor
                     ELSE /\ styleCursor' = [styleCursor EXCEPT ![domElement] = css]
                          /\ Done(TRUE, FALSE, NoError)
                ELSE Done(FALSE, TRUE, NoError) /\ UNCHANGED styleCursor

setCursor(mode) ==
    /\ applyCursor(mode)
    /\ UNCHANGED <<envVars, features, domElement, eventsAdded, renderer, eventListeners,
                   rootTarget, boundaryCursor, lastEvent>>
    /\ UNCHANGED offEvent

\* A native event: its type, the number of its changedTouches (touch events),
\* its pointerType (pointer events; undefined on the others) and whether the
\* first entry of its composedPath is the domElement.
NativeEvent(type, changedTouches, pointerType, onElement) ==
    [type |-> type, changedTouches |-> changedTouches, pointerType |-> pointerType,
     onElement |-> onElement]

\* _normalizeToPointerData: one normalized event for every changed touch of a
\* touch event, the normalized mouse event, or the pointer event as it is.
normalizeToPointerData(event) ==
    IF supportsTouchEvents /\ event.type.prefix = "touch"
    THEN [i \in 1..event.changedTouches |->
             [type |-> event.type, pointerType |-> "touch", isNormalized |-> TRUE]]
    ELSE IF event.type.prefix = "mouse" \/ ~supportsPointerEvents
    THEN <<[type |-> event.type,
            pointerType |-> IF event.pointerType = "undefined" THEN "mouse"
                            ELSE event.pointerType,
            isNormalized |-> TRUE]>>
    ELSE <<[type |-> event.type, pointerType |-> event.pointerType, isNormalized |-> FALSE]>>

\* _bootstrapEvent without the replacement of 'mouse' by 'pointer'.
bootstrapEvent_keepsMouse(nativeEvent) ==
    LET transferred == nativeEvent.type
        left == IF transferred = Type("pointer", "leave") THEN Type("pointer", "out")
                ELSE transferred
        touch == IF left.prefix = "touch"
                 THEN IF left.rest \in DOMAIN TOUCH_TO_POINTER
                      THEN TOUCH_TO_POINTER[left.rest] ELSE left
                 ELSE left
    IN  [type |-> TypeName(touch), pointerType |-> nativeEvent.pointerType]

\* _bootstrapEvent, as far as the type goes: _transferMouseData copies the
\* native type, then 'pointerleave' becomes 'pointerout', a leading 'mouse'
\* becomes 'pointer' and a touch type is looked up in TOUCH_TO_POINTER.
bootstrapEvent(nativeEvent) ==
    LET transferred == nativeEvent.type
        left == IF transferred = Type("pointer", "leave") THEN Type("pointer", "out")
                ELSE transferred
        mouse == IF left.prefix = "mouse" THEN Type("pointer", left.rest) ELSE left
        touch == IF mouse.prefix = "touch"
                 THEN IF mouse.rest \in DOMAIN TOUCH_TO_POINTER
                      THEN TOUCH_TO_POINTER[mouse.rest] ELSE mouse
                 ELSE mouse
    IN  [type |-> TypeName(touch), pointerType |-> nativeEvent.pointerType]

Handled(event, handler, mapped, error) ==
    lastEvent' = [type |-> event.type, onElement |-> event.onElement, handler |-> handler,
                  mapped |-> mapped, error |-> error, seq |-> 1 - lastEvent.seq]

\* The early return of a handler whose feature is off.
Ignored(event, handler) ==
    /\ Handled(event, handler, <<>>, NoError)
    /\ UNCHANGED <<rootTarget, boundaryCursor, currentCursor, styleCursor, lastCursor>>

\* The read of renderer.lastObjectRendered after destroy.
NoRenderer(event, handler) ==
    /\ Handled(event, handler, <<>>, "TypeError")
    /\ UNCHANGED <<rootTarget, boundaryCursor, currentCursor, styleCursor, lastCursor>>

\* mapEvent on every event of the list, then setCursor(rootBoundary.cursor).
\* cursor is what the boundary's cursor is after the events were mapped.
MapEvents(event, handler, mapped, cursor) ==
    /\ Handled(event, handler, mapped, NoError)
    /\ boundaryCursor' = (IF mapped = <<>> THEN boundaryCursor ELSE cursor)
    /\ applyCursor(boundaryCursor')

onPointerDown(event, lastObjectRendered, cursor) ==
    IF ~features.click THEN Ignored(event, "_onPointerDown")
    ELSE IF ~renderer THEN NoRenderer(event, "_onPointerDown")
    ELSE LET events == normalizeToPointerData(event)
         IN  /\ rootTarget' = lastObjectRendered
             /\ IF autoPreventDefault /\ events = <<>>
                THEN /\ Handled(event, "_onPointerDown", <<>>, "TypeError")
                     /\ UNCHANGED <<boundaryCursor, currentCursor, styleCursor, lastCursor>>
                ELSE MapEvents(event, "_onPointerDown",
                               [i \in 1..Len(events) |-> bootstrapEvent(events[i])], cursor)

onPointerMove(event, lastObjectRendered, cursor) ==
    IF ~features.move THEN Ignored(event, "_onPointerMove")
    ELSE IF ~renderer THEN NoRenderer(event, "_onPointerMove")
    ELSE LET events == normalizeToPointerData(event)
         IN  /\ rootTarget' = lastObjectRendered
             /\ MapEvents(event, "_onPointerMove",
                          [i \in 1..Len(events) |-> bootstrapEvent(events[i])], cursor)

onPointerUp(event, lastObjectRendered, cursor) ==
    IF ~features.click THEN Ignored(event, "_onPointerUp")
    ELSE IF ~renderer THEN NoRenderer(event, "_onPointerUp")
    ELSE LET events == normalizeToPointerData(event)
             outside == IF event.onElement THEN "" ELSE "outside"
         IN  /\ rootTarget' = lastObjectRendered
             /\ MapEvents(event, "_onPointerUp",
                          [i \in 1..Len(events) |->
                              [bootstrapEvent(events[i]) EXCEPT !.type = @ \o outside]],
                          cursor)

onPointerOverOut(event, lastObjectRendered, cursor) ==
    IF ~features.click THEN Ignored(event, "_onPointerOverOut")
    ELSE IF ~renderer THEN NoRenderer(event, "_onPointerOverOut")
    ELSE LET events == normalizeToPointerData(event)
         IN  /\ rootTarget' = lastObjectRendered
             /\ MapEvents(event, "_onPointerOverOut",
                          [i \in 1..Len(events) |-> bootstrapEvent(events[i])], cursor)

\* onWheel without the check of features.wheel.
onWheel_unguarded(event, lastObjectRendered) ==
    IF ~renderer THEN NoRenderer(event, "onWheel")
    ELSE /\ rootTarget' = lastObjectRendered
         /\ Handled(event, "onWheel", <<[type |-> TypeName(event.type),
                                         pointerType |-> event.pointerType]>>, NoError)
         /\ UNCHANGED <<boundaryCursor, currentCursor, styleCursor, lastCursor>>

\* onWheel: the wheel event is normalized (its type is copied) and mapped; the
\* cursor is left alone.
onWheel(event, lastObjectRendered) ==
    IF ~features.wheel THEN Ignored(event, "onWheel")
    ELSE IF ~renderer THEN NoRenderer(event, "onWheel")
    ELSE /\ rootTarget' = lastObjectRendered
         /\ Handled(event, "onWheel", <<[type |-> TypeName(event.type),
                                         pointerType |-> event.pointerType]>>, NoError)
         /\ UNCHANGED <<boundaryCursor, currentCursor, styleCursor, lastCursor>>

\* The DOM delivers a native event to a target: the handler the system has
\* registered there for the type of the event runs.
dispatch(target, event, lastObjectRendered, cursor) ==
    /\ Registered(eventListeners, target, event.type) > 0
    /\ \E b \in Bindings(IF target \in Element THEN target ELSE domElement) :
          /\ b.target = target /\ b.type = event.type
          /\ CASE b.handler = "_onPointerDown" -> onPointerDown(event, lastObjectRendered, cursor)
               [] b.handler = "_onPointerMove" -> onPointerMove(event, lastObjectRendered, cursor)
               [] b.handler = "_onPointerUp" -> onPointerUp(event, lastObjectRendered, cursor)
               [] b.handler = "_onPointerOverOut" ->
                      onPointerOverOut(event, lastObjectRendered, cursor)
               [] b.handler = "onWheel" -> onWheel(event, lastObjectRendered)
    /\ UNCHANGED <<envVars, features, domElement, eventsAdded, renderer, eventListeners>>
    /\ UNCHANGED offEvent

\* A new EventSystem in an environment with or without pointer and touch
\* events: no target element, no listener, every feature on.
EventSystemIn(pointerEvents, touchEvents, preventDefault) ==
    /\ supportsPointerEvents = pointerEvents
    /\ supportsTouchEvents = touchEvents
    /\ autoPreventDefault = preventDefault
    /\ features = [move |-> TRUE, click |-> TRUE, wheel |-> TRUE]
    /\ domElement = NoElement
    /\ eventsAdded = FALSE
    /\ renderer = TRUE
    /\ currentCursor = NoCursor
    /\ eventListeners = NoListeners
    /\ styleCursor = [e \in Element |-> ""]
    /\ rootTarget = NoNode
    /\ boundaryCursor = NoMode
    /\ lastEvent = NoEvent
    /\ lastCursor = NoCursorCall

EventSystemConstructed == EventSystemIn(TRUE, FALSE, TRUE)

\* ------------------------------------------------------------ specification
\* After construction: three detached nodes; the container handed to render()
\* was constructed with or without isRenderGroup.
SceneConstructed ==
    /\ parent = [n \in Node |-> NoNode]
    /\ children = [n \in Node |-> <<>>]
    /\ isRenderGroup \in {[n \in Node |-> n = Root /\ r] : r \in BOOLEAN}
    /\ visible = [n \in Node |-> TRUE]
    /\ didViewUpdate = [v \in View |-> FALSE]
    /\ didViewChangeTick = [v \in View |-> 0]
    /\ boundsDirty = [v \in View |-> TRUE]
    /\ childrenRenderablesToUpdate = [n \in Node |-> NoUpdates]
    /\ groupDirty = [n \in Node |-> isRenderGroup[n]]
    /\ notifications = [v \in View |-> 0]
    /\ boundsReads = [v \in View |-> 0]
    /\ updateBoundsCalls = [v \in View |-> 0]
    /\ lastPass = NoPass

\* A new pipe and the meshes it will be handed: no mesh data, no records, an
\* empty pool and an empty instruction set.
PipeConstructed ==
    /\ listeners = [m \in Mesh |-> 0]
    /\ meshDataHash = [m \in Mesh |-> NoMeshData]
    /\ gpuBatchableMeshHash = [m \in Mesh |-> NoRecord]
    /\ pipeDestroyed = FALSE
    /\ batchable = [r \in Rec |-> NewBatchableMesh]
    /\ pool = <<>>
    /\ instructionSet = <<>>
    /\ returned = [r \in Rec |-> 0]
    /\ prevValidated = [m \in Mesh |-> NotValidated]
    /\ lastCall = NoCall

\* A renderer made without the roundPixels option and meshes as constructed.
RoundPixelsOff ==
    /\ rendererRoundPixels = 0
    /\ meshRoundPixels = [m \in Mesh |-> 0]

\* Views that have not been destroyed and have no GPU data yet.
ViewsConstructed ==
    /\ destroyed = [v \in View |-> FALSE]
    /\ gpuData = [v \in View |-> [isNull |-> FALSE, keys |-> {}]]
    /\ gpuDestroyCalls = [v \in View |-> [r \in RendererUid |-> 0]]
    /\ lastUse = NoUse
    /\ size = [width |-> 2, height |-> 2]
    /\ content = [text |-> "", style |-> "s1", resolution |-> 1]
    /\ anchor = [v \in View |-> [x |-> 0, y |-> 0]]
    /\ viewBounds = [v \in View |-> NewBounds]
    /\ texture = EMPTY
    /\ updateListeners = [t \in SpriteTexture |-> 0]

\* A renderer with a pipe for every view's renderPipeId, before its first render,
\* and the views it will render.
RendererConstructed ==
    /\ registered = [v \in View |-> TRUE]
    /\ groupBlendMode = [v \in View |-> "normal"]
    /\ groupInstructionSet = [n \in Node |-> <<>>]
    /\ thrown = NoError
    /\ ViewsConstructed

Init ==
    /\ SceneConstructed
    /\ mesh = [m \in Mesh |-> NewMesh]
    /\ PipeConstructed /\ RoundPixelsOff
    /\ RendererConstructed
    /\ EventSystemConstructed

Next ==
    \/ \E v \in View : Mutate(v)
    \/ \E p \in {Root, "a"}, c \in View : addChild(p, c)
    \/ \E p \in {Root, "a"}, c \in View : removeChild(p, c)
    \/ \E n \in View, value \in BOOLEAN : setVisible(n, value)
    \/ \E n \in View : enableRenderGroup(n)
    \/ \E n \in View : disableRenderGroup(n)
    \/ Render

vars == <<sceneVars, pipeVars, rendererVars, lifeVars, shapeVars, eventVars>>

Spec == Init /\ [][Next]_vars

\* The bounds cache of the views: mutations, reads of bounds, and the render
\* passes and attachments between them.
BoundsNext ==
    \/ \E v \in View : Mutate(v)
    \/ \E v \in View : ReadBounds(v)
    \/ \E c \in View : addChild(Root, c)
    \/ Render

BoundsSpec == Init /\ [][BoundsNext]_vars

\* Render calls on trees in which a view may name a pipe the renderer does not
\* have, between mutations and attachments.
UnknownPipeInit ==
    /\ SceneConstructed
    /\ mesh = [m \in Mesh |-> NewMesh]
    /\ PipeConstructed /\ RoundPixelsOff
    /\ registered \in [View -> BOOLEAN]
    /\ groupBlendMode \in [View -> BlendMode]
    /\ groupInstructionSet = [n \in Node |-> <<>>]
    /\ thrown = NoError
    /\ ViewsConstructed
    /\ EventSystemConstructed

UnknownPipeNext ==
    \/ \E v \in View : Mutate(v)
    \/ \E p \in {Root, "a"}, c \in View : addChild(p, c)
    \/ renderRoot

UnknownPipeSpec == UnknownPipeInit /\ [][UnknownPipeNext]_vars

\* The life of the views: attachment, render passes, destroy, and every
\* operation before and after destroy.
LifeNext ==
    \/ \E c \in View : ~destroyed[c] /\ addChild(Root, c)
    \/ Render
    \/ \E v \in View, op \in {"set", "update"} : viewUpdate(v, op)
    \/ \E v \in View, op \in {"bounds", "containsPoint"} : readBounds(v, op)
    \/ \E v \in View : ViewContainer_destroy(v) /\ UNCHANGED texVars

LifeSpec == Init /\ [][LifeNext]_vars

\* The GPU data of the views: renderers create entries, views are attached,
\* changed and destroyed, also twice.
GpuDataNext ==
    \/ \E c \in View : ~destroyed[c] /\ addChild(Root, c)
    \/ \E v \in View, r \in RendererUid : createGpuData(v, r)
    \/ \E v \in View : viewUpdate(v, "set")
    \/ \E v \in View : ViewContainer_destroy(v) /\ UNCHANGED texVars

GpuDataSpec == Init /\ [][GpuDataNext]_vars

\* A NineSliceSprite, in the scene or not, is given textures and widths, its
\* textures change, and it is destroyed, with or without its texture.
TextureNext ==
    \/ \E value \in SpriteTexture \cup {NoTexture} : ~destroyed[Sprite] /\ set_texture(value)
    \/ \E destroyTexture \in BOOLEAN :
           ~destroyed[Sprite] /\ NineSliceSprite_destroy(destroyTexture)
    \/ \E t \in SpriteTexture : emitUpdate(t)
    \/ \E c \in View : ~destroyed[c] /\ addChild(Root, c)
    \/ \E value \in Length : ~destroyed[Sprite] /\ set_width(value)

TextureSpec == Init /\ [][TextureNext]_vars

\* The arguments setSize is called with.
OptionalLength == {Undefined} \cup {Some(h) : h \in Length}
SizeArgument ==
    {SizeNumber(w) : w \in Length} \cup {SizeObject(w, h) : w \in Length, h \in OptionalLength}

\* The shape of a NineSliceSprite or of a text under its setters, with reads of
\* bounds in between. The two views share no state: a behaviour works on one of
\* them and leaves the other as constructed.
Alone(v) == \A u \in View \ {v} : didViewChangeTick[u] = 0 /\ boundsDirty[u]

ShapeNext ==
    \/ \E value \in Length : Alone(Sprite) /\ set_width(value)
    \/ \E value \in Length : Alone(Sprite) /\ set_height(value)
    \/ \E value \in SizeArgument, height \in OptionalLength :
           Alone(Sprite) /\ setSize(value, height)
    \/ Alone(Sprite) /\ set_textureOrBorder
    \/ \E v \in View, x \in AnchorHalves, y \in AnchorHalves : Alone(v) /\ set_anchor(v, x, y)
    \/ \E value \in TextString : Alone(TextView) /\ set_text(value)
    \/ \E style \in TextStyle : Alone(TextView) /\ set_style(style)
    \/ \E value \in Resolution : Alone(TextView) /\ set_resolution(value)
    \/ \E v \in View : Alone(v) /\ get_bounds(v)

ShapeSpec == Init /\ [][ShapeNext]_vars

\* The pipe under calls in any order: the batched flag of the meshes changes
\* between calls, every instruction set handed to addRenderable is a new one, a
\* mesh that carries the pipe's listener may emit 'destroyed', and the pipe may
\* be destroyed.
PipeInit ==
    /\ SceneConstructed /\ ~isRenderGroup[Root]
    /\ mesh = [m \in Mesh |-> NewMesh]
    /\ PipeConstructed /\ RoundPixelsOff
    /\ RendererConstructed
    /\ EventSystemConstructed

\* mesh.emit('destroyed') runs the listener _initMeshData registered.
emitDestroyed(m) ==
    /\ listeners[m] > 0
    /\ destroyRenderable(m)

PipeNext ==
    \/ \E m \in Mesh, b \in BOOLEAN :
           changeMesh(m, [mesh[m] EXCEPT !.batched = b])
    \/ \E m \in Mesh : validateRenderable(m) /\ UNCHANGED offPipe
    \/ \E m \in Mesh : addRenderable(m, <<>>) /\ UNCHANGED offPipe
    \/ \E m \in Mesh : updateRenderable(m) /\ UNCHANGED offPipe
    \/ \E m \in Mesh : destroyRenderable(m) /\ UNCHANGED offPipe
    \/ \E m \in Mesh : emitDestroyed(m) /\ UNCHANGED offPipe
    \/ destroy /\ UNCHANGED offPipe

PipeSpec == PipeInit /\ [][PipeNext]_vars

\* One instruction set under construction: meshes with any textures are added
\* to it one after the other and a new build starts with an empty instruction
\* set. A build is synchronous: the batched flag of a mesh changes between two
\* builds, never during one.
BatchInit ==
    /\ SceneConstructed /\ ~isRenderGroup[Root]
    /\ mesh \in [Mesh -> {value \in MeshState : value.geometry = "g1"}]
    /\ PipeConstructed /\ RoundPixelsOff
    /\ RendererConstructed
    /\ EventSystemConstructed

buildStart ==
    /\ instructionSet # <<>>
    /\ instructionSet' = <<>>
    /\ UNCHANGED <<meshVars, meshDataHash, gpuBatchableMeshHash, pipeDestroyed, roundVars, batchable,
                   pool, returned, prevValidated, lastCall>>
    /\ UNCHANGED offPipe

BatchNext ==
    \/ \E m \in Mesh, b \in BOOLEAN :
           instructionSet = <<>> /\ changeMesh(m, [mesh[m] EXCEPT !.batched = b])
    \/ \E m \in Mesh :
           /\ Len(instructionSet) < MaxInstructions
           /\ addRenderable(m, instructionSet)
           /\ UNCHANGED offPipe
    \/ buildStart

BatchSpec == BatchInit /\ [][BatchNext]_vars

\* One mesh under validation: the mesh changes in any way between the calls,
\* and is validated or added to a new instruction set.
ValidateNext ==
    \/ \E value \in MeshState : changeMesh("m1", value)
    \/ validateRenderable("m1") /\ UNCHANGED offPipe
    \/ addRenderable("m1", <<>>) /\ UNCHANGED offPipe

ValidateSpec == PipeInit /\ [][ValidateNext]_vars

\* One mesh on the fast path: the mesh changes in any way between the calls and
\* is added to a new instruction set, validated or updated.
UpdateNext ==
    \/ \E value \in MeshState : changeMesh("m1", value)
    \/ addRenderable("m1", <<>>) /\ UNCHANGED offPipe
    \/ validateRenderable("m1") /\ UNCHANGED offPipe
    \/ updateRenderable("m1") /\ UNCHANGED offPipe

UpdateSpec == PipeInit /\ [][UpdateNext]_vars

\* ==================================================================== claims
Index(g) == childrenRenderablesToUpdate[g].index
Pending(g) == SubSeq(childrenRenderablesToUpdate[g].list, 1, Index(g))
Groups == {g \in Node : isRenderGroup[g]}
RECURSIVE Ancestors(_)
Ancestors(n) == IF parent[n] = NoNode THEN {} ELSE {parent[n]} \cup Ancestors(parent[n])
\* The nodes a pass over the tree reaches: visible, below visible nodes only.
Shown(n) == n \in Subtree(Root) /\ \A m \in ({n} \cup Ancestors(n)) : visible[m]
\* A step that calls onViewUpdate on v.
Mutated(v) == didViewChangeTick'[v] # didViewChangeTick[v]
\* A step in which a render group is notified of v.
Notified(v) == notifications'[v] > notifications[v]

\* C1: between two collections of a view, onViewUpdate notifies a render group at
\* most once; a notification happens only in a call made while didViewUpdate is
\* false, which sets it; the group notified is the view's own render group if it
\* has one and its parentRenderGroup otherwise, and no other group's list
\* changes; a call made while didViewUpdate is true notifies nobody.
C1_Step ==
    \A v \in View :
        /\ notifications'[v] <= 1
        /\ Notified(v) =>
              /\ ~didViewUpdate[v] /\ didViewUpdate'[v]
              /\ LET g == IF isRenderGroup[v] THEN v ELSE parentRenderGroup(v) IN
                 /\ g # NoNode
                 /\ childrenRenderablesToUpdate'[g].index = Index(g) + 1
                 /\ childrenRenderablesToUpdate'[g].list[Index(g) + 1] = v
                 /\ \A h \in Node \ {g} :
                        childrenRenderablesToUpdate'[h] = childrenRenderablesToUpdate[h]
        /\ (Mutated(v) /\ didViewUpdate[v]) =>
              childrenRenderablesToUpdate' = childrenRenderablesToUpdate

C1_NotifiesOncePerCollection == [][C1_Step]_vars

\* "b", below the render group of "a", was mutated twice with no collection in
\* between (nothing was rendered yet) and "a" was notified once.
C1_Witness ==
    /\ ~isRenderGroup[Root] /\ isRenderGroup["a"] /\ ~isRenderGroup["b"]
    /\ parent["b"] = "a"
    /\ didViewChangeTick["b"] = 2
    /\ notifications["b"] = 1
    /\ Pending("a") = <<"b">>

\* C2: the first read of bounds that follows a mutation (or the construction)
\* calls updateBounds exactly once, and the reads after it, up to the next
\* mutation, call it zero times.
C2_OneUpdateBoundsPerMutation ==
    \A v \in View :
        /\ boundsReads[v] = 0 => updateBoundsCalls[v] = 0
        /\ boundsReads[v] >= 1 => updateBoundsCalls[v] = 1

\* A view that was mutated and then read twice.
C2_Witness ==
    \E v \in View :
        didViewChangeTick[v] >= 1 /\ boundsReads[v] = 2 /\ updateBoundsCalls[v] = 1

\* C3, as claimed: after a render pass didViewUpdate is false for every node of
\* the rendered tree, and the index is 0 for every render group the pass rebuilt.
C3_AllNodesClearAfterRender ==
    lastPass.done =>
        /\ \A v \in View \cap Subtree(Root) : ~didViewUpdate[v]
        /\ \A g \in lastPass.rebuilt : Index(g) = 0

\* C3, amended: after a render pass didViewUpdate is false for every node the
\* pass reaches (visible and renderable, below such nodes only), and the index
\* is 0 for every render group the pass reaches.
C3_ReachedNodesClearAfterRender ==
    lastPass.done =>
        /\ \A v \in View : Shown(v) => ~didViewUpdate[v]
        /\ \A g \in Groups : Shown(g) => Index(g) = 0

\* A pass has just collected "b", which had been mutated, in the group of "a".
C3_Witness ==
    /\ lastPass.done
    /\ "a" \in lastPass.rebuilt
    /\ parent["b"] = "a" /\ Shown("b") /\ ~isRenderGroup["b"]
    /\ didViewChangeTick["b"] >= 1

C5_DirtyGroupHasDirtyAncestors ==
    \A g \in Groups : groupDirty[g] => \A h \in Groups \cap Ancestors(g) : groupDirty[h]

\* C5, amended: a view-update notification leaves dirty every render group from
\* the view's nearest group (its own, else its parentRenderGroup) up to the
\* root group, and in every state a dirty group has only dirty groups above it,
\* both for a group that a render pass reaches (visible, below visible nodes).
C5_Step ==
    /\ \A g \in Groups' :
          (groupDirty'[g] /\ Shown(g)') =>
              \A h \in Groups' \cap Ancestors(g)' : groupDirty'[h]
    /\ \A v \in View :
          Notified(v) =>
              LET g == IF isRenderGroup[v] THEN v ELSE parentRenderGroup(v) IN
              Shown(g) => \A h \in Groups \cap ({g} \cup Ancestors(g)) : groupDirty'[h]

C5_ReachedDirtyGroupHasDirtyAncestors == [][C5_Step]_vars

\* The groups of root, "a" and "b" are nested and all dirty after a
\* notification by "b", which owns a group.
C5_Witness ==
    /\ parent["a"] = Root /\ parent["b"] = "a"
    /\ isRenderGroup[Root] /\ isRenderGroup["a"] /\ isRenderGroup["b"]
    /\ Shown("b")
    /\ Pending("b") = <<"b">>
    /\ groupDirty["b"] /\ groupDirty["a"] /\ groupDirty[Root]

\* C6, as claimed: between renders the index of a group equals the number of
\* distinct views that notified it since its list was last reset.
C6_IndexCountsDistinctViews ==
    \A g \in Groups : Index(g) = Cardinality(Range(Pending(g)))

\* C6, amended: the first mutation of a view after its collection raises the
\* index of the view's group by exactly 1 and stores the view at the old index;
\* further mutations before the next collection leave every index unchanged;
\* and the index of a group changes in no other way than by such a notification
\* or by a reset to 0 (so it counts the notifications since the reset, in which
\* a view that another group collected in between counts again).
C6_Step ==
    /\ \A v \in View :
          Mutated(v) =>
              LET g == IF isRenderGroup[v] THEN v ELSE parentRenderGroup(v) IN
              IF g = NoNode \/ didViewUpdate[v]
              THEN childrenRenderablesToUpdate' = childrenRenderablesToUpdate
              ELSE /\ childrenRenderablesToUpdate'[g].index = Index(g) + 1
                   /\ childrenRenderablesToUpdate'[g].list[Index(g) + 1] = v
    /\ \A g \in Node :
          \/ childrenRenderablesToUpdate'[g].index = Index(g)
          \/ childrenRenderablesToUpdate'[g].index = 0
          \/ /\ childrenRenderablesToUpdate'[g].index = Index(g) + 1
             /\ \E v \in View : Mutated(v) /\ ~didViewUpdate[v]

C6_IndexCountsNotifications == [][C6_Step]_vars

\* After a render pass collected "b" in the group of the root, "b" was mutated
\* twice: the index is 1.
C6_Witness ==
    /\ isRenderGroup[Root] /\ ~isRenderGroup["b"]
    /\ parent["b"] = Root
    /\ didViewChangeTick["b"] = 2 /\ didViewUpdate["b"]
    /\ Pending(Root) = <<"b">>

\* The event system of a renderer: init binds the canvas, then the features are
\* switched and the DOM delivers native events to the registered handlers.
EventInit ==
    /\ SceneConstructed /\ ~isRenderGroup[Root]
    /\ mesh = [m \in Mesh |-> NewMesh]
    /\ PipeConstructed /\ RoundPixelsOff
    /\ RendererConstructed
    /\ \E p \in BOOLEAN, t \in BOOLEAN, a \in BOOLEAN : EventSystemIn(p, t, a)

BoundaryCursor == {NoMode, "pointer"}
PointerType == {"mouse", "touch"}

\* The native events of a type the DOM can deliver.
NativeEvents(type) ==
    IF type.prefix = "touch"
    THEN {NativeEvent(type, n, "undefined", on) : n \in 0..2, on \in BOOLEAN}
    ELSE IF type.prefix = "pointer"
    THEN {NativeEvent(type, 0, pt, on) : pt \in PointerType, on \in BOOLEAN}
    ELSE {NativeEvent(type, 0, "undefined", on) : on \in BOOLEAN}

EventNext ==
    \/ \E f \in [{"move", "click", "wheel"} -> BOOLEAN] :
           domElement = NoElement /\ renderer /\ init("e1", f)
    \/ \E name \in {"move", "click", "wheel"}, value \in BOOLEAN : setFeature(name, value)
    \/ \E target \in EventTarget, type \in NativeType :
           /\ Registered(eventListeners, target, type) > 0
           /\ \E event \in NativeEvents(type), c \in BoundaryCursor :
                  dispatch(target, event, Root, c)

EventSpec == EventInit /\ [][EventNext]_vars

\* The target element of the event system: it is set, replaced and cleared, the
\* system is destroyed, and the cursor is set in between.
TargetNext ==
    \/ \E e \in Element \cup {NoElement} : setTargetElement(e)
    \/ EventSystem_destroy
    \/ \E mode \in CursorMode \cup {NoMode} : setCursor(mode)

TargetSpec == EventInit /\ [][TargetNext]_vars

\* A pipe that is handed a mesh that is batched at every call and a mesh that
\* is never batched; their textures, and the geometry of the batched one, change
\* between the calls.
AlwaysBatched == "m1"
NeverBatched == "m2"

LazyInit ==
    /\ SceneConstructed /\ ~isRenderGroup[Root]
    /\ mesh = [m \in Mesh |-> [NewMesh EXCEPT !.batched = (m = AlwaysBatched)]]
    /\ PipeConstructed /\ RoundPixelsOff
    /\ RendererConstructed
    /\ EventSystemConstructed

LazyNext ==
    \/ \E m \in Mesh, t \in {"t1", "t3"} : changeMesh(m, [mesh[m] EXCEPT !.texture = t])
    \/ \E g \in {"g1", "g2"} :
           changeMesh(AlwaysBatched, [mesh[AlwaysBatched] EXCEPT !.geometry = g])
    \/ \E m \in Mesh : validateRenderable(m) /\ UNCHANGED offPipe
    \/ \E m \in Mesh : addRenderable(m, <<>>) /\ UNCHANGED offPipe
    \/ \E m \in Mesh : updateRenderable(m) /\ UNCHANGED offPipe
    \/ \E m \in Mesh : destroyRenderable(m) /\ UNCHANGED offPipe

LazySpec == LazyInit /\ [][LazyNext]_vars

\* ------------------------------------------------------- MeshPipe claims
\* A step in which addRenderable(m, instructionSet) has added to the instruction
\* set under construction.
Added(m) ==
    /\ lastCall'.op = "addRenderable" /\ lastCall'.mesh = m
    /\ Len(instructionSet') > Len(instructionSet)
\* A step that is a call of validateRenderable(m).
Validated(m) ==
    /\ lastCall' # lastCall
    /\ lastCall'.op = "validateRenderable" /\ lastCall'.mesh = m
LastOf(iset) == iset[Len(iset)]

\* C7: destroyRenderable is idempotent: whenever it has been called on a mesh,
\* once or twice in a row, with or without a record allocated, the call has not
\* thrown, no record has been returned to the pool more than once since it was
\* acquired, and the mesh has no entry left in _gpuBatchableMeshHash or
\* _meshDataHash.
C7_DestroyRenderableIdempotent ==
    /\ \A r \in Rec : returned[r] <= 1
    /\ lastCall.op = "destroyRenderable" =>
           /\ lastCall.result = "ok"
           /\ gpuBatchableMeshHash[lastCall.mesh] = NoRecord
           /\ ~meshDataHash[lastCall.mesh].present

\* What holds of destroyRenderable while the pipe has not been destroyed.
DestroyRenderableIdempotentWhileAlive ==
    /\ \A r \in Rec : returned[r] <= 1
    /\ (lastCall.op = "destroyRenderable" /\ ~pipeDestroyed) =>
           /\ lastCall.result = "ok"
           /\ gpuBatchableMeshHash[lastCall.mesh] = NoRecord
           /\ ~meshDataHash[lastCall.mesh].present
\* destroyRenderable has been called twice in a row on a mesh that had a record.
DestroyedTwiceWhileAlive ==
    /\ lastCall.op = "destroyRenderable" /\ lastCall.times = 2 /\ ~pipeDestroyed
    /\ \E r \in Rec : returned[r] = 1
\* The listener has run destroyRenderable on the destroyed pipe.
ListenerThrows ==
    /\ lastCall.op = "destroyRenderable" /\ lastCall.result = "TypeError"
    /\ listeners[lastCall.mesh] > 0

\* C8: addRenderable on a mesh that is not batchable appends a break and then
\* the mesh's own instruction to the instruction set it was given, and nothing
\* else; every standalone mesh instruction of an instruction set has a break
\* immediately before it.
C8_Step ==
    /\ \A m \in Mesh : (Added(m) /\ ~mesh[m].batched) =>
           instructionSet' = instructionSet \o <<Break, MeshInstruction(m)>>
    /\ \A i \in 1..Len(instructionSet') : instructionSet'[i].kind = "mesh" =>
           i > 1 /\ instructionSet'[i - 1] = Break
C8_BreakBeforeStandaloneDraw == [][C8_Step]_vars

\* What holds of addRenderable: the mesh recorded as not batched gets the break
\* and its instruction.
RecordedFlagStep ==
    /\ \A m \in Mesh : (Added(m) /\ ~getMeshData(m).batched) =>
           instructionSet' = instructionSet \o <<Break, MeshInstruction(m)>>
    /\ \A i \in 1..Len(instructionSet') : instructionSet'[i].kind = "mesh" =>
           i > 1 /\ instructionSet'[i - 1] = Break
BreakBeforeStandaloneDrawOfRecordedFlag == [][RecordedFlagStep]_vars

\* C9: when a batchable view is added right after another batchable view and
\* their textures are of the same slot, its element is appended with no break,
\* next to the other's element; when a view is added whose texture does not fit
\* the batch in progress, a break is appended immediately before the view's own
\* instruction.
C9_Step ==
    \A m \in Mesh : Added(m) =>
        LET own == LastOf(instructionSet')
            t == mesh[m].texture
        IN
        /\ (/\ mesh[m].batched
            /\ instructionSet # <<>>
            /\ \E n \in Mesh \ {m} :
                   /\ LastOf(instructionSet).mesh = n
                   /\ mesh[n].batched
                   /\ SlotOf(mesh[n].texture) = SlotOf(t))
           => /\ instructionSet' = Append(instructionSet, own)
              /\ own = BatchElement(m, t)
              /\ LastOf(instructionSet).kind = "batch"
        /\ (OpenBatch(instructionSet) # NoBatch /\ OpenBatch(instructionSet) # SlotOf(t))
           => /\ instructionSet' = instructionSet \o <<Break, own>>
              /\ own.mesh = m
C9_CompatibleViewsMergeIncompatibleBreak == [][C9_Step]_vars

\* C10: a validation of a mesh that was validated before returns true exactly
\* when the batched flag differs from the one at the previous validation, or
\* the mesh is batched and its index or vertex count differs from the one at
\* the previous validation, or the mesh is batched and the batch of its record
\* refuses its texture; otherwise it returns false.
C10_Step ==
    \A m \in Mesh :
        (Validated(m) /\ prevValidated[m].known /\ lastCall'.result # "TypeError") =>
        LET before == prevValidated[m]
            flagChanged == mesh[m].batched # before.batched
            countsChanged ==
                /\ mesh[m].batched
                /\ \/ indicesLength(mesh[m].geometry) # indicesLength(before.geometry)
                   \/ positionsLength(mesh[m].geometry) # positionsLength(before.geometry)
            refused ==
                /\ mesh[m].batched
                /\ gpuBatchableMeshHash[m] # NoRecord
                /\ ~checkAndUpdateTexture(batchable[gpuBatchableMeshHash[m]], mesh[m].texture)
        IN lastCall'.result =
               IF flagChanged \/ countsChanged \/ refused THEN "true" ELSE "false"
C10_ValidateReportsChanges == [][C10_Step]_vars
\* validateRenderable has returned true twice in a row for a batched mesh that
\* is in a batch and did not change between the two calls.
ValidatedTrueTwice ==
    /\ lastCall.op = "validateRenderable" /\ lastCall.times = 2 /\ lastCall.result = "true"
    /\ gpuBatchableMeshHash[lastCall.mesh] # NoRecord
    /\ checkAndUpdateTexture(batchable[gpuBatchableMeshHash[lastCall.mesh]],
                             mesh[lastCall.mesh].texture)

\* A step that is a call of updateRenderable(m).
Updated(m) ==
    /\ lastCall' # lastCall
    /\ lastCall'.op = "updateRenderable" /\ lastCall'.mesh = m

\* C11: a call of updateRenderable changes no mesh-data entry, no entry of the
\* record hash, nothing in the pool and nothing in the instruction set; on a
\* batched mesh whose record exists it sets the record's texture and geometry
\* to the mesh's, whether or not the texture fits the record's batch, and leaves
\* the rest of the record and every other record as they were; on a mesh that is
\* not batched it changes no record either.
C11_Step ==
    \A m \in Mesh : Updated(m) =>
        /\ UNCHANGED <<meshVars, meshDataHash, gpuBatchableMeshHash, pipeDestroyed, roundVars, pool,
                       returned, instructionSet>>
        /\ (mesh[m].batched /\ gpuBatchableMeshHash[m] # NoRecord) =>
               batchable' = [batchable EXCEPT ![gpuBatchableMeshHash[m]] =
                   [@ EXCEPT !.texture = mesh[m].texture, !.geometry = mesh[m].geometry]]
        /\ ~mesh[m].batched => batchable' = batchable
C11_UpdateOnlyRefreshesRecord == [][C11_Step]_vars
\* updateRenderable has returned for a batched mesh and has given the record a
\* texture that the record's batch would refuse.
C11_Witness ==
    /\ lastCall.op = "updateRenderable" /\ lastCall.result = "ok"
    /\ mesh[lastCall.mesh].batched
    /\ gpuBatchableMeshHash[lastCall.mesh] # NoRecord
    /\ batchable[gpuBatchableMeshHash[lastCall.mesh]].texture = mesh[lastCall.mesh].texture
    /\ ~checkAndUpdateTexture(batchable[gpuBatchableMeshHash[lastCall.mesh]],
                              mesh[lastCall.mesh].texture)

\* ------------------------------------------------------ collection order
\* The instruction set of group g is in pre-order: no node twice, a node before
\* the nodes below it, and the subtree of an earlier child before the subtree of
\* a later child of the same parent; it holds the instruction of every view of
\* the group that the pass reaches.
InPreOrder(g, iset) ==
    /\ \A i, j \in 1..Len(iset) : i # j => iset[i].node # iset[j].node
    /\ \A i, j \in 1..Len(iset) :
           (iset[j].node # iset[i].node /\ iset[j].node \in Subtree(iset[i].node)) => i < j
    /\ \A p \in Node : \A a, b \in 1..Len(children[p]) : \A i, j \in 1..Len(iset) :
           (/\ a < b
            /\ iset[i].node \in Subtree(children[p][a])
            /\ iset[j].node \in Subtree(children[p][b])) => i < j
    /\ \A v \in View : (Shown(v) /\ OwnerGroup(v) = g) =>
           \E i \in 1..Len(iset) : iset[i] = DrawInstruction(v)

C12_Order ==
    lastPass.done => \A g \in lastPass.rebuilt :
        /\ InPreOrder(g, lastPass.instructionSet[g])
        /\ lastPass.instructionSet[g] = CollectGroup(g).instructions

\* C12: the instruction set a pass builds for a group is the pre-order of the
\* group's tree with children in insertion order, a view's own instruction
\* before those of its children; building it again over the unchanged tree gives
\* the same sequence, and a pass that follows a pass with no change in between
\* rebuilds nothing, so the instruction sets stay as they are.
C12_Step ==
    /\ C12_Order'
    /\ (lastPass.done /\ lastPass'.done /\ lastPass' # lastPass) => lastPass'.rebuilt = {}
C12_SiblingWitness ==
    /\ lastPass.done /\ Root \in lastPass.rebuilt
    /\ children[Root] = <<"b", "a">>
    /\ lastPass.instructionSet[Root] = <<DrawInstruction("b"), DrawInstruction("a")>>

\* ---------------------------------------------------------- change tick
\* C13: every call of onViewUpdate raises the view's _didViewChangeTick by
\* exactly 1 and leaves its bounds dirty flag set, also a call made while
\* didViewUpdate is already true and a call on a view with no render group; no
\* step lowers the tick, and only a call of onViewUpdate changes it.
C13_Step ==
    \A v \in View :
        /\ Mutate(v) => /\ didViewChangeTick'[v] = didViewChangeTick[v] + 1
                        /\ boundsDirty'[v]
        /\ didViewChangeTick'[v] >= didViewChangeTick[v]
        /\ didViewChangeTick'[v] # didViewChangeTick[v] => Mutate(v)
C13_TickCountsEveryCall == [][C13_Step]_vars
\* A view that never had a render group was changed twice, the second time with
\* didViewUpdate already set.
C13_Witness ==
    \E v \in View :
        /\ OwnerGroup(v) = NoNode /\ parent[v] = NoNode
        /\ didViewChangeTick[v] = 2 /\ didViewUpdate[v] /\ boundsDirty[v]
        /\ notifications[v] = 0

\* ------------------------------------------------------- unknown render pipe
\* C14: a render call that fails on a view whose renderPipeId has no registered
\* pipe leaves every view's didViewUpdate flag and the instruction set the render
\* group keeps as they were before the call.
C14_Step ==
    (renderRoot /\ thrown' # NoError) =>
        /\ didViewUpdate' = didViewUpdate
        /\ groupInstructionSet' = groupInstructionSet
C14_FailedRenderChangesNothing == [][C14_Step]_vars

\* The error reaches the render caller in the call that meets the view: a render
\* call that rebuilds the group throws exactly when the traversal reaches a view
\* without a pipe, and it throws again when it is repeated.
UnknownPipeThrowsStep ==
    renderRoot =>
        /\ thrown' # NoError <=>
               /\ isRenderGroup[Root] => groupDirty[Root]
               /\ \E v \in View : /\ ~registered[v] /\ Shown(v)
                                  /\ \A u \in Ancestors(v) \cap View : registered[u]
        /\ thrown' # NoError => groupDirty'[Root]
UnknownPipeThrows == [][UnknownPipeThrowsStep]_vars
\* A render call threw after it had cleared the flag of an earlier view.
ThrownAfterClearing ==
    /\ thrown # NoError
    /\ groupInstructionSet[Root] # <<>>
    /\ \E v \in View : registered[v] /\ ~didViewUpdate[v] /\ didViewChangeTick[v] > 0

\* ------------------------------------------------------ use after destroy
\* A step that operates on v.
Operated(v) == lastUse' # lastUse /\ lastUse'.view = v

\* C15: an operation on a view after its destroy() (a setter that calls
\* onViewUpdate, a read of bounds, containsPoint, a second destroy, a delivered
\* 'update' event) is reported as a use-after-destroy error; it notifies no
\* render group and changes no pooled record.
C15_Step ==
    \A v \in View : (Operated(v) /\ destroyed[v]) =>
        /\ lastUse'.outcome = "UseAfterDestroy"
        /\ UNCHANGED <<notifications, childrenRenderablesToUpdate, batchable, pool>>
C15_UseAfterDestroyReported == [][C15_Step]_vars

\* What does hold: an operation on a destroyed view reaches no render group and
\* no pooled record.
UseAfterDestroyReachesNobodyStep ==
    \A v \in View : (Operated(v) /\ destroyed[v]) =>
        UNCHANGED <<notifications, childrenRenderablesToUpdate, groupDirty, batchable, pool>>
UseAfterDestroyReachesNobody == [][UseAfterDestroyReachesNobodyStep]_vars
\* A setter has been accepted on a destroyed view and has counted a change.
AcceptedAfterDestroy ==
    /\ lastUse.afterDestroy /\ lastUse.op = "set" /\ lastUse.outcome = "ok"
    /\ didViewChangeTick[lastUse.view] > 0 /\ didViewUpdate[lastUse.view]
\* A read of the bounds of a destroyed view has returned null.
NullBoundsAfterDestroy ==
    lastUse.afterDestroy /\ lastUse.op = "bounds" /\ lastUse.outcome = "null"

\* ------------------------------------------------------------- GPU data
\* C19: ViewContainer.destroy calls destroy() once on every entry of _gpuData,
\* whichever renderers created entries, and leaves the view with no entry; no
\* entry is ever destroyed twice, also when destroy is called again.
C19_Step ==
    /\ \A v \in View, r \in RendererUid : gpuDestroyCalls'[v][r] <= 1
    /\ \A v \in View : (Operated(v) /\ lastUse'.op = "destroy") =>
           /\ gpuData'[v].isNull /\ gpuData'[v].keys = {}
           /\ \A r \in RendererUid :
                  (~gpuData[v].isNull /\ r \in gpuData[v].keys) => gpuDestroyCalls'[v][r] = 1
C19_DestroyReleasesGpuData == [][C19_Step]_vars
\* A view with an entry of either renderer has been destroyed, twice.
C19_Witness ==
    /\ lastUse.op = "destroy" /\ lastUse.afterDestroy
    /\ \A r \in RendererUid : gpuDestroyCalls[lastUse.view][r] = 1
    /\ gpuData[lastUse.view].isNull
\* A view with one entry has been destroyed.
C19_OneEntryWitness ==
    /\ lastUse.op = "destroy" /\ ~lastUse.afterDestroy
    /\ gpuDestroyCalls[lastUse.view] = [r \in RendererUid |-> IF r = 2 THEN 1 ELSE 0]

\* --------------------------------------------------------- cached bounds
\* What the bounds of v are computed from.
ShapeOf(v) == IF v = Sprite THEN <<size, anchor[v]>> ELSE <<content, anchor[v]>>

\* C16: every shape mutation of the NineSliceSprite (width, height, setSize,
\* anchor, texture, borders) and of the text (text, style, resolution, anchor)
\* sets the bounds dirty flag; so whenever the flag is clear the Bounds object a
\* read returns holds what updateBounds computes from the current width, height,
\* text and anchor.
C16_Step ==
    /\ \A v \in View : ShapeOf(v)' # ShapeOf(v) => Mutated(v)
    /\ \A v \in View : Mutated(v) => boundsDirty'[v]
    /\ \A v \in View : ~boundsDirty'[v] => viewBounds'[v] = updateBounds(v)'
C16_CachedBoundsNeverStale == [][C16_Step]_vars
\* The bounds of the sprite were read, its width and then its anchor were set,
\* with a read after each.
C16_Witness ==
    /\ ~boundsDirty[Sprite] /\ didViewChangeTick[Sprite] = 2
    /\ size.width = 0 /\ anchor[Sprite] = [x |-> 1, y |-> 2]
    /\ viewBounds[Sprite] = [minX |-> 0, minY |-> -2, maxX |-> 0, maxY |-> 0]
\* The bounds of the text were read after its text and its anchor were set.
C16_TextWitness ==
    /\ ~boundsDirty[TextView] /\ didViewChangeTick[TextView] = 2
    /\ content.text = "ab" /\ anchor[TextView] = [x |-> 1, y |-> 0]
    /\ viewBounds[TextView] = [minX |-> -2, minY |-> 0, maxX |-> 2, maxY |-> 2]

\* C17: whenever the bounds of a view have been computed, minX <= maxX and
\* minY <= maxY, for every width, height and anchor the setters accept.
C17_BoundsOrdered ==
    \A v \in View : ~boundsDirty[v] =>
        /\ viewBounds[v].minX <= viewBounds[v].maxX
        /\ viewBounds[v].minY <= viewBounds[v].maxY
\* What does hold: the computed bounds of the text are ordered, and those of the
\* sprite are when neither its width nor its height is negative.
BoundsOrderedForNonNegativeSize ==
    \A v \in View : (~boundsDirty[v] /\ (v = Sprite => size.width >= 0 /\ size.height >= 0)) =>
        /\ viewBounds[v].minX <= viewBounds[v].maxX
        /\ viewBounds[v].minY <= viewBounds[v].maxY
\* The bounds of a sprite of negative width have been computed.
NegativeWidthBounds ==
    /\ ~boundsDirty[Sprite] /\ size.width < 0
    /\ viewBounds[Sprite].maxX < viewBounds[Sprite].minX

\* --------------------------------------------------------- pooled records
\* The records and the uid slots agree: a record is in one slot at most, its
\* renderable is the mesh of the slot, it has not been returned since it was
\* acquired and is not in the pool; no record was returned twice, the pool holds
\* no record twice, and a destroyed pipe holds none.
PoolConsistent ==
    /\ \A m1, m2 \in Mesh :
           (m1 # m2 /\ gpuBatchableMeshHash[m1] # NoRecord) =>
               gpuBatchableMeshHash[m1] # gpuBatchableMeshHash[m2]
    /\ \A m \in Mesh : gpuBatchableMeshHash[m] # NoRecord =>
           /\ batchable[gpuBatchableMeshHash[m]].renderable = m
           /\ returned[gpuBatchableMeshHash[m]] = 0
           /\ gpuBatchableMeshHash[m] \notin Range(pool)
    /\ \A r \in Rec : returned[r] <= 1 /\ (r \in Range(pool) <=> returned[r] = 1)
    /\ \A i, j \in 1..Len(pool) : i # j => pool[i] # pool[j]
    /\ pipeDestroyed => InUse = {}

\* C18: in every reachable state of the pipe a pooled record is held under one
\* mesh uid at most and its renderable is that mesh; a uid that holds a record
\* gets no other one; a record goes back to the pool only in destroyRenderable or
\* MeshPipe.destroy, once, leaving its uid slot in the same call.
C18_Step ==
    /\ PoolConsistent'
    /\ \A m \in Mesh :
           (gpuBatchableMeshHash[m] # NoRecord /\ gpuBatchableMeshHash'[m] # NoRecord) =>
               gpuBatchableMeshHash'[m] = gpuBatchableMeshHash[m]
    /\ \A r \in Rec : (returned'[r] > returned[r]) =>
           /\ r \in InUse /\ r \notin InUse'
           /\ lastCall'.op \in {"destroyRenderable", "destroy"}
    /\ (lastCall' # lastCall /\ lastCall'.op = "destroy" /\ lastCall'.result = "ok") =>
           \A r \in InUse : returned'[r] = 1
C18_RecordsHeldOnceReturnedOnce == [][C18_Step]_vars
\* A record returned by one mesh is held by the other, while the first mesh
\* holds another record.
C18_Witness ==
    /\ gpuBatchableMeshHash["m1"] = "r2" /\ gpuBatchableMeshHash["m2"] = "r1"
    /\ batchable["r2"].renderable = "m1" /\ batchable["r1"].renderable = "m2"
    /\ pool = <<>>
\* MeshPipe.destroy has returned the two records that were held.
C18_DestroyWitness ==
    /\ pipeDestroyed /\ Len(pool) = 2 /\ \A r \in Rec : returned[r] = 1

\* ------------------------------------------------------------------ tree
\* The number of times n occurs in the children list of p.
Occurrences(p, n) == Cardinality({i \in 1..Len(children[p]) : children[p][i] = n})

\* C20: after any sequence of addChild and removeChild calls that avoids cycles,
\* a node occurs exactly once in the children list of its parent and in no other
\* list; a node without a parent (the root, a detached node) occurs in none; no
\* node is its own ancestor.
C20_OneParentOneListEntry ==
    \A n \in Node :
        /\ \A p \in Node : Occurrences(p, n) = IF parent[n] = p THEN 1 ELSE 0
        /\ parent[Root] = NoNode
        /\ n \notin Subtree(n) \ {n}
        /\ \A p \in Node : parent[n] = p => p \notin Subtree(n)
\* The tree root > a > b, with both views pending in the root's group.
C20_Witness ==
    /\ parent["b"] = "a" /\ parent["a"] = Root
    /\ children[Root] = <<"a">> /\ children["a"] = <<"b">>
    /\ groupDirty[Root] /\ childrenRenderablesToUpdate[Root].index = 2

\* ------------------------------------------------------------ event features
\* A native event of the type was delivered to one of the system's handlers.
Delivered(type) == lastEvent' # lastEvent /\ lastEvent'.type = type

\* The native types of pointer movement: move, over, out and leave.
MovementType == {t \in NativeType : t.rest \in {"move", "over", "out", "leave"}}

\* C21: while features.move is false no pointer-movement event is dispatched:
\* a native pointermove / mousemove / touchmove, and also a pointerover and a
\* pointerout / pointerleave (or their mouse forms), delivered to the system
\* causes no rootBoundary.mapEvent call.
C21_MoveOffNothingMapped ==
    [][\A type \in MovementType :
           Delivered(type) /\ ~features.move => lastEvent'.mapped = <<>>]_vars

\* ---------------------------------------------------------- target element
\* C22: after any sequence of setTargetElement(e), setTargetElement(null) and
\* destroy calls the system's listeners are registered for exactly the current
\* domElement and for no earlier one, every listener (those on document and
\* globalThis included) is registered once, _eventsAdded is true exactly when
\* domElement is not null, and after destroy, which leaves domElement null, no
\* listener remains.
C22_ListenersFollowTarget ==
    /\ eventsAdded <=> domElement # NoElement
    /\ eventListeners = IF domElement # NoElement THEN [k \in Keys(domElement) |-> 1]
                        ELSE NoListeners
    /\ ~renderer /\ domElement = NoElement => eventListeners = NoListeners

\* The system was bound to "e1" (whose cursor it set), destroyed, and is bound
\* to "e2" now.
C22_Witness ==
    /\ domElement = "e2"
    /\ styleCursor["e1"] = "pointer"
    /\ ~renderer

\* ------------------------------------------------------------------- cursor
\* The CSS cursor the element shows for a mode whose style is written to it.
CursorFor(mode) == IF mode \in DOMAIN cursorStyles THEN cursorStyles[mode].css ELSE mode
WrittenMode == {m \in CursorMode : m \in DOMAIN cursorStyles => cursorStyles[m].kind = "string"}

\* C29: setCursor is idempotent per mode: a call with the current mode writes
\* no style and calls no cursor function; a falsy mode is treated as 'default';
\* and after setCursor(m), for a mode m shown through the element's style, the
\* current domElement shows the cursor for m, also when the target element was
\* replaced since m was first set.
C29_CursorShownAfterSetCursor ==
    [][\A mode \in CursorMode \cup {NoMode} : setCursor(mode) =>
           LET m == IF mode = NoMode THEN "default" ELSE mode
           IN  /\ lastCursor'.mode = m
               /\ currentCursor = m => ~lastCursor'.applied /\ ~lastCursor'.called
               /\ m \in WrittenMode /\ domElement # NoElement =>
                      styleCursor'[domElement] = CursorFor(m)]_vars

\* The part of C29 the code keeps: a call with the current mode does nothing,
\* and a call with another mode shows that mode's cursor on the element.
C29_SetCursorSkipsCurrentMode ==
    [][\A mode \in CursorMode \cup {NoMode} : setCursor(mode) =>
           LET m == IF mode = NoMode THEN "default" ELSE mode
           IN  /\ lastCursor'.mode = m
               /\ currentCursor = m =>
                      ~lastCursor'.applied /\ ~lastCursor'.called /\ UNCHANGED styleCursor
               /\ currentCursor # m /\ m \in WrittenMode /\ domElement # NoElement =>
                      styleCursor'[domElement] = CursorFor(m)]_vars

\* ----------------------------------------------------------- native events
\* The feature that gates a native event of the pointer-down, pointer-up and
\* wheel kinds.
ClickType == {t \in NativeType : t.rest \in {"down", "start", "up", "end"}}

\* C26: a native event whose feature flag is false (click for pointer down and
\* up, wheel for wheel) has no effect: no mapEvent call, no change of
\* rootBoundary.rootTarget and no cursor change.
C26_DisabledEventHasNoEffect ==
    [][\A type \in ClickType \cup {WheelEventType} :
           Delivered(type) /\ ~(IF type = WheelEventType THEN features.wheel
                                 ELSE features.click)
           => /\ lastEvent'.mapped = <<>>
              /\ UNCHANGED <<rootTarget, boundaryCursor, currentCursor, styleCursor>>]_vars

\* A wheel event was ignored after earlier events had set the root target and
\* the cursor.
C26_Witness ==
    /\ lastEvent.handler = "onWheel"
    /\ ~features.wheel
    /\ lastEvent.mapped = <<>>
    /\ rootTarget = Root
    /\ currentCursor = "pointer"

\* The feature flag a pointer handler tests first.
Enabled(handler) == IF handler = "_onPointerMove" THEN features.move ELSE features.click
PointerHandler == {"_onPointerDown", "_onPointerMove", "_onPointerUp", "_onPointerOverOut"}

\* C27: for every native mouse, pointer or touch event (a touch event whose
\* changedTouches is empty included) _normalizeToPointerData returns at least
\* one event and all the events it returns have the same pointer type, so that
\* the handler maps at least one event and _onPointerDown's read of events[0]
\* does not fail.
C27_NormalizedEventsNotEmpty ==
    [][/\ lastEvent' # lastEvent
       /\ lastEvent'.handler \in PointerHandler
       /\ Enabled(lastEvent'.handler)
       => /\ lastEvent'.error = NoError
          /\ lastEvent'.mapped # <<>>
          /\ \A i, j \in 1..Len(lastEvent'.mapped) :
                 lastEvent'.mapped[i].pointerType = lastEvent'.mapped[j].pointerType]_vars

\* The part of C27 the code keeps: an event that is not a touch event is
\* normalized to exactly one event, and the events of a touch event all have
\* the pointer type 'touch'.
C27_NormalizedEventsOfOneType ==
    [][/\ lastEvent' # lastEvent
       /\ lastEvent'.handler \in PointerHandler
       /\ Enabled(lastEvent'.handler)
       => /\ lastEvent'.type.prefix # "touch" =>
                 Len(lastEvent'.mapped) = 1 /\ lastEvent'.error = NoError
          /\ \A i, j \in 1..Len(lastEvent'.mapped) :
                 lastEvent'.mapped[i].pointerType = lastEvent'.mapped[j].pointerType]_vars

\* The type a native event of the given type is mapped with: 'mouse' becomes
\* 'pointer', the touch types become pointerdown, pointerup, pointermove and
\* pointercancel, 'pointerleave' becomes 'pointerout'.
PointerFamily ==
    {"pointerdown", "pointerup", "pointerupoutside", "pointermove", "pointerover",
     "pointerout", "pointercancel"}
MappedType(type) ==
    CASE type.prefix = "mouse" -> "pointer" \o type.rest
      [] type = Type("touch", "start") -> "pointerdown"
      [] type = Type("touch", "end") -> "pointerup"
      [] type = Type("touch", "move") -> "pointermove"
      [] type = Type("touch", "cancel") -> "pointercancel"
      [] type = Type("pointer", "leave") -> "pointerout"
      [] OTHER -> TypeName(type)

\* C28: every event a pointer handler passes to mapEvent has a pointer-family
\* type: the native type with 'mouse' replaced by 'pointer', the touch types
\* mapped to pointerdown / pointerup / pointermove / pointercancel and
\* 'pointerleave' to 'pointerout'; an up event whose target is not the
\* domElement is mapped as 'pointerupoutside' whichever its native family.
C28_MappedEventsArePointerEvents ==
    [][lastEvent' # lastEvent /\ lastEvent'.handler \in PointerHandler
       => \A i \in 1..Len(lastEvent'.mapped) :
              /\ lastEvent'.mapped[i].type \in PointerFamily
              /\ lastEvent'.mapped[i].type =
                     IF lastEvent'.handler = "_onPointerUp" /\ ~lastEvent'.onElement
                     THEN "pointerupoutside"
                     ELSE MappedType(lastEvent'.type)]_vars

\* A touchend outside the element was mapped as two 'pointerupoutside' events.
C28_Witness ==
    /\ lastEvent.type = Type("touch", "end")
    /\ ~lastEvent.onElement
    /\ Len(lastEvent.mapped) = 2
    /\ lastEvent.mapped[1].type = "pointerupoutside"

\* --------------------------------------------------------------------- size
\* The size after `width = w` followed by `height = h`.
WidthThenHeight(w, h) == [[size EXCEPT !.width = w] EXCEPT !.height = h]

\* C23: NineSliceSprite.setSize(w, h) gives the width and height that
\* `width = w` followed by `height = h` gives; setSize(w) without a height, or
\* with an object that has no height, sets both to w; getSize() then returns
\* exactly these values; and one setSize call is exactly one onViewUpdate call
\* (one step of the change tick).
C23_SetSizeIsWidthThenHeight ==
    [][\A value \in SizeArgument, height \in OptionalLength : setSize(value, height) =>
           LET w == value.width
               given == IF value.isObject THEN value.height ELSE height
               h == IF given.defined THEN given.value ELSE w
           IN  /\ size' = WidthThenHeight(w, h)
               /\ getSize' = [width |-> w, height |-> h]
               /\ didViewChangeTick'[Sprite] = didViewChangeTick[Sprite] + 1]_vars

\* One call (one change tick) has set both the width and the height of the
\* sprite, which was constructed 2 by 2, to -2.
C23_Witness ==
    /\ size = [width |-> -2, height |-> -2]
    /\ didViewChangeTick[Sprite] = 1

\* ------------------------------------------------------------ lazy records
\* A call of the pipe for the mesh.
PipeCall(m) ==
    validateRenderable(m) \/ addRenderable(m, <<>>) \/ updateRenderable(m)

\* The records that came out of BigPool.get in the step: they are in the hash
\* now and were not before.
Got == InUse' \ InUse

\* C25: the pool record of a mesh is acquired lazily and only for batched
\* meshes: a mesh that is not batched at any validate / add / update call never
\* causes a BigPool.get (it never has a record and its calls leave the pool and
\* the records alone); a batched mesh has its record after it was added, and
\* while it has one no call for it gets another, however often it is validated
\* or added: one BigPool.get until the record is destroyed.
C25_Step ==
    /\ gpuBatchableMeshHash'[NeverBatched] = NoRecord
    /\ PipeCall(NeverBatched) => Got = {} /\ pool' = pool
    /\ PipeCall(AlwaysBatched) =>
           /\ Cardinality(Got) <= 1
           /\ gpuBatchableMeshHash[AlwaysBatched] # NoRecord =>
                  /\ Got = {} /\ pool' = pool
                  /\ gpuBatchableMeshHash'[AlwaysBatched] = gpuBatchableMeshHash[AlwaysBatched]
    /\ addRenderable(AlwaysBatched, <<>>) /\ ~pipeDestroyed =>
           gpuBatchableMeshHash'[AlwaysBatched] # NoRecord
C25_RecordAcquiredOnceWhenBatched == [][C25_Step]_vars

\* The batched mesh was added twice in a row and holds a record; the other mesh
\* is known to the pipe and has none.
C25_Witness ==
    /\ lastCall.op = "addRenderable" /\ lastCall.mesh = AlwaysBatched /\ lastCall.times = 2
    /\ gpuBatchableMeshHash[AlwaysBatched] # NoRecord
    /\ returned[gpuBatchableMeshHash[AlwaysBatched]] = 0
    /\ meshDataHash[NeverBatched].present
    /\ gpuBatchableMeshHash[NeverBatched] = NoRecord

\* ------------------------------------------------------ pending notifications
\* C30: in every reachable state a view whose didViewUpdate flag is set and
\* which has a render group (its own or its parent's) is in that group's list
\* of pending updates; in particular a view first mutated while it had no
\* render group and mutated again after it was attached (or re-parented) has
\* its current group notified before the next render.
C30_FlaggedViewIsPending ==
    \A v \in View :
        didViewUpdate[v] /\ OwnerGroup(v) # NoNode => v \in Range(Pending(OwnerGroup(v)))

\* The part of C30 the code keeps: a view whose flag is clear when it is
\* mutated, and which has a render group then, is pending in that group
\* afterwards.
C30_NotifiedViewIsPending ==
    [][\A v \in View :
           Mutate(v) /\ ~didViewUpdate[v] /\ OwnerGroup(v) # NoNode
           => v \in Range(Pending(OwnerGroup(v)))']_vars

\* ViewContainer's roundPixels setter on a mesh.
set_roundPixels(m, value) ==
    /\ meshRoundPixels' = [meshRoundPixels EXCEPT ![m] = IF value THEN 1 ELSE 0]
    /\ meshRoundPixels' # meshRoundPixels
    /\ UNCHANGED <<meshVars, meshDataHash, gpuBatchableMeshHash, pipeDestroyed,
                   rendererRoundPixels, batchable, pool, instructionSet, returned,
                   prevValidated, lastCall>>
    /\ UNCHANGED offPipe

\* Batched meshes under a renderer made with or without the roundPixels option:
\* roundPixels of a mesh is set between the calls of the pipe.
RoundInit ==
    /\ SceneConstructed /\ ~isRenderGroup[Root]
    /\ mesh = [m \in Mesh |-> NewMesh]
    /\ PipeConstructed
    /\ rendererRoundPixels \in {0, 1}
    /\ meshRoundPixels = [m \in Mesh |-> 0]
    /\ RendererConstructed
    /\ EventSystemConstructed

RoundNext ==
    \/ \E m \in Mesh, value \in BOOLEAN : set_roundPixels(m, value)
    \/ \E m \in Mesh : validateRenderable(m) /\ UNCHANGED offPipe
    \/ \E m \in Mesh : addRenderable(m, <<>>) /\ UNCHANGED offPipe
    \/ \E m \in Mesh : updateRenderable(m) /\ UNCHANGED offPipe
    \/ \E m \in Mesh : destroyRenderable(m) /\ UNCHANGED offPipe

RoundSpec == RoundInit /\ [][RoundNext]_vars

\* -------------------------------------------------------------- stale flag
\* The path addRenderable took: the last element it put in the instruction set.
TookBatchPath == instructionSet' # <<>> /\ instructionSet'[Len(instructionSet')].kind = "batch"

\* C31: in any interleaving of changes of the batched flag with
\* validateRenderable, addRenderable, updateRenderable and destroyRenderable,
\* updateRenderable on a mesh whose batched flag is true finds a record under
\* the mesh's uid (it never dereferences a missing one), and addRenderable
\* takes the batch path exactly when the mesh's current batched flag is true.
C31_Step ==
    \A m \in Mesh :
        /\ updateRenderable(m) /\ ~pipeDestroyed /\ mesh[m].batched
           => gpuBatchableMeshHash[m] # NoRecord
        /\ addRenderable(m, <<>>) /\ ~pipeDestroyed
           => (TookBatchPath <=> mesh[m].batched)
C31_CurrentFlagDecides == [][C31_Step]_vars

\* The part of C31 the code keeps: addRenderable takes the path of the flag
\* recorded in the mesh data, which is the mesh's flag at its last validation
\* (or at its first call).
C31_FlagOfLastValidationDecides ==
    [][\A m \in Mesh :
           addRenderable(m, <<>>) /\ ~pipeDestroyed /\ meshDataHash[m].present
           => (TookBatchPath <=> meshDataHash[m].batched)]_vars

\* ---------------------------------------------------- destroy of the pipe
\* C32: after MeshPipe.destroy, destroying a mesh the pipe had seen raises no
\* error: either no 'destroyed' listener of the pipe is left on the mesh (and
\* nothing of the pipe runs), or the destroyRenderable the listener runs on the
\* destroyed pipe does not throw.
C32_MeshDestroyAfterPipeDestroyIsHarmless ==
    [][\A m \in Mesh :
           pipeDestroyed /\ emitDestroyed(m) => lastCall'.result # "TypeError"]_vars

\* The part of C32 the code keeps: destroy returns every record it holds to the
\* pool and empties both hashes.
C32_DestroyReturnsEveryRecord ==
    pipeDestroyed =>
        /\ \A m \in Mesh : gpuBatchableMeshHash[m] = NoRecord /\ ~meshDataHash[m].present
        /\ \A r \in Rec : returned[r] <= 1

\* ------------------------------------------------------ 'destroyed' listener
\* C33: after any sequence of validateRenderable, addRenderable and
\* destroyRenderable calls (a mesh re-used after destroyRenderable included),
\* on a pipe that has not been destroyed, the pipe's 'destroyed' listener is
\* registered on a mesh exactly when the pipe holds a mesh-data entry for its
\* uid, and never more than once.
C33_ListenerFollowsMeshData ==
    ~pipeDestroyed =>
        \A m \in Mesh : listeners[m] = IF meshDataHash[m].present THEN 1 ELSE 0

\* A destroyRenderable has returned a record to the pool; one mesh has an entry
\* and its listener, the other has neither.
C33_Witness ==
    /\ ~pipeDestroyed
    /\ pool # <<>>
    /\ meshDataHash["m1"].present /\ listeners["m1"] = 1
    /\ ~meshDataHash["m2"].present /\ listeners["m2"] = 0

\* ------------------------------------------------------------- round pixels
\* C34: whenever a batched mesh is added or updated, the roundPixels of its
\* pooled batch record equals renderer._roundPixels | mesh._roundPixels for the
\* mesh's current roundPixels, also when roundPixels of the mesh was set after
\* the record was made.
C34_RecordRoundPixelsIsCurrent ==
    [][\A m \in Mesh :
           /\ addRenderable(m, <<>>) \/ updateRenderable(m)
           /\ lastCall'.result = "ok"
           /\ mesh[m].batched /\ gpuBatchableMeshHash'[m] # NoRecord
           => batchable'[gpuBatchableMeshHash'[m]].roundPixels
                  = BitOr(rendererRoundPixels, meshRoundPixels[m])]_vars

\* The part of C34 the code keeps: a record that leaves the pool for a mesh
\* gets renderer._roundPixels | mesh._roundPixels as they are at that moment.
C34_RecordRoundPixelsSetWhenAcquired ==
    [][\A m \in Mesh :
           gpuBatchableMeshHash[m] = NoRecord /\ gpuBatchableMeshHash'[m] # NoRecord
           => batchable'[gpuBatchableMeshHash'[m]].roundPixels
                  = BitOr(rendererRoundPixels, meshRoundPixels[m])]_vars

\* ------------------------------------------------ texture of the NineSliceSprite
\* C35: after any sequence of texture assignments on a NineSliceSprite, followed
\* or not by destroy, the sprite's onViewUpdate is registered for the 'update'
\* event of at most one texture, the current one and only if it is dynamic:
\* never for a replaced texture, and for none after destroy.
C35_SubscribedToCurrentDynamicTextureOnly ==
    \A t \in SpriteTexture :
        updateListeners[t] = IF t = texture /\ dynamic(t) THEN 1 ELSE 0

\* The part of C35 the code keeps: as long as the sprite is not destroyed, the
\* listener is on the current texture when it is dynamic, once, and on no other.
C35_SubscribedWhileAlive ==
    ~destroyed[Sprite] =>
        \A t \in SpriteTexture :
            updateListeners[t] = IF t = texture /\ dynamic(t) THEN 1 ELSE 0

====
